---------------------------- MODULE Spec2Model ----------------------------
(***************************************************************************)
(* Entity/component runtime of corgi: the generic Component<T> base        *)
(* (include/entity/component.h), the pool it stores its records in, the    *)
(* per-entity index table, and the per-entity hooks of the library's       *)
(* components (physics.cpp, rendermesh.cpp).                               *)
(*                                                                         *)
(* Slot indices are 0-based as in the code; slot i of a pool is            *)
(* slots[i + 1] of its model.                                              *)
(***************************************************************************)
EXTENDS Integers, Sequences, FiniteSets, TLC

VARIABLES
    entities, \* the entities that exist                  (EntityManager's entity pool)
    pools,    \* component -> VectorPool<ComponentData>  (Component::component_data_)
    table,    \* entity -> component -> data index       (Entity's index table)
    world,    \* rigid bodies in the physics world       (PhysicsComponent::bullet_world_)
    components, \* the registered components, in registration order
    updates,  \* the UpdateAllEntities calls of the last per-frame pass, in order
    vp,       \* a stand-alone VectorPool<int>
    written,  \* live handle of vp -> payload written at its allocation
    nalloc,   \* number of GetNewElement calls on vp
    nfree     \* number of FreeElement calls on vp

vars ==
    <<entities, pools, table, world, components, updates, vp, written, nalloc, nfree>>

----------------------------------------------------------------------------
(* Bounds *)

NumEntities == 2
MaxFrameEntities == 1
MaxShapes == 1
MaxAllocs == 4
MaxPayload == 2

Entities == 1..NumEntities
Payloads == 1..MaxPayload

----------------------------------------------------------------------------
(* Constants of the program *)

kUnusedComponentIndex == 65535

kAddToFront == "kAddToFront"
kAddToBack == "kAddToBack"
AllocationLocation == {kAddToFront, kAddToBack}

Transform == "TransformComponent"
Physics == "PhysicsComponent"
RenderMesh == "RenderMeshComponent"
Graph == "GraphComponent"
Comps == {Transform, Physics, RenderMesh, Graph}

\* Two components of a game built on the library, each of which needs the
\* other: the InitEntity of one registers the entity with the other.
CycleX == "XComponent"
CycleY == "YComponent"
CycleComps == {CycleX, CycleY}

\* A component of the game whose records name other entities (the
\* dependents of the entity), which its CleanupEntity removes from the
\* component too.
Cascade == "CascadeComponent"

AllComps == Comps \cup CycleComps \cup {Cascade}

kMaxPhysicsBodies == 5

\* The render passes of the RenderPass enumeration.
RenderPass_kOpaque == 0
RenderPass_kCount == 2

\* A null T*; a non-null T* is the index of the slot it points into.
nullptr == -1
NoEntity == 0
\* The end() iterator; any other iterator is the index of its slot.
EndIter == -2

\* TransformData::position, as far as the registry can tell positions
\* apart: the default-constructed one and any other.
Positions == {"origin", "moved"}

\* T() of each component. PhysicsData() : body_count(0), enabled(false);
\* rigid_bodies holds the first body_count entries of the array, each with
\* whether its rigid body is a kinematic object, its should_export, the
\* type of its shape, its collision_type and its collides_with layers;
\* a RenderMeshData made by T() has no mesh and no shader file name, an
\* empty pass mask, culling not ignored and is not hidden (the loaded mesh and shader are
\* not part of the record here: AddFromRawData only asserts on them); a
\* GraphData has no graphs.
DefaultData(c) ==
    CASE c = Physics -> [enabled |-> FALSE, body_count |-> 0, rigid_bodies |-> <<>>]
      [] c = RenderMesh -> [mesh_filename |-> "", shader_filename |-> "",
                            pass_mask |-> {}, ignore_culling |-> FALSE,
                            currently_hidden |-> FALSE]
      [] c = Graph -> [graphs |-> <<>>]
      [] c \in CycleComps -> [constructed |-> TRUE]
      [] c = Cascade -> [dependents |-> {}]
      [] OTHER -> [position |-> "origin"]

\* ComponentData(): an EntityRef that refers to nothing, and a T().
DefaultComponentData(c) == [entity |-> NoEntity, data |-> DefaultData(c)]

----------------------------------------------------------------------------
(* VectorPool<T>: slots, the iteration order threaded through the occupied *)
(* ones, and the free list.                                                *)

EmptyPool == [slots |-> <<>>, order |-> <<>>, free |-> <<>>]

InRange(p, index) == index \in 0..(Len(p.slots) - 1)

IsLive(p, index) == InRange(p, index) /\ p.slots[index + 1].used

\* size(): count of occupied slots.
Size_CountsAllSlots(p) == Len(p.slots)

Size(p) == Cardinality({i \in 1..Len(p.slots) : p.slots[i].used})

\* get(handle): the payload's address (here the slot index), or null when
\* the slot is free or out of range.
GetElementData(p, index) == IF IsLive(p, index) THEN index ELSE nullptr

\* allocate(placement): reuse the head of the free list, else grow; the
\* payload is constructed afresh; splice at the front or the back.
GetNewElement_GrowthLosesPayloads(p, loc, init) ==
    LET reuse == p.free # <<>>
        index == IF reuse THEN Head(p.free) ELSE Len(p.slots)
        elem == [used |-> TRUE, data |-> init]
        slots1 == IF reuse THEN [p.slots EXCEPT ![index + 1] = elem]
                  ELSE Append([i \in 1..Len(p.slots) |->
                                  [p.slots[i] EXCEPT !.data = init]], elem)
        order1 == IF loc = kAddToFront THEN <<index>> \o p.order
                                       ELSE Append(p.order, index)
    IN [pool |-> [slots |-> slots1, order |-> order1,
                  free |-> IF reuse THEN Tail(p.free) ELSE p.free],
        index |-> index]

GetNewElement_NeverReuses(p, loc, init) ==
    LET index == Len(p.slots)
        elem == [used |-> TRUE, data |-> init]
        order1 == IF loc = kAddToFront THEN <<index>> \o p.order
                                       ELSE Append(p.order, index)
    IN [pool |-> [slots |-> Append(p.slots, elem), order |-> order1,
                  free |-> p.free],
        index |-> index]

GetNewElement_IgnoresPlacement(p, loc, init) ==
    LET reuse == p.free # <<>>
        index == IF reuse THEN Head(p.free) ELSE Len(p.slots)
        elem == [used |-> TRUE, data |-> init]
        slots1 == IF reuse THEN [p.slots EXCEPT ![index + 1] = elem]
                           ELSE Append(p.slots, elem)
    IN [pool |-> [slots |-> slots1, order |-> Append(p.order, index),
                  free |-> IF reuse THEN Tail(p.free) ELSE p.free],
        index |-> index]

GetNewElement(p, loc, init) ==
    LET reuse == p.free # <<>>
        index == IF reuse THEN Head(p.free) ELSE Len(p.slots)
        elem == [used |-> TRUE, data |-> init]
        slots1 == IF reuse THEN [p.slots EXCEPT ![index + 1] = elem]
                           ELSE Append(p.slots, elem)
        order1 == IF loc = kAddToFront THEN <<index>> \o p.order
                                       ELSE Append(p.order, index)
    IN [pool |-> [slots |-> slots1, order |-> order1,
                  free |-> IF reuse THEN Tail(p.free) ELSE p.free],
        index |-> index]

Without(seq, x) == SelectSeq(seq, LAMBDA y : y # x)

PositionOf(seq, x) == CHOOSE k \in 1..Len(seq) : seq[k] = x

\* The element after index in iteration order, or end.
NextInOrder(p, index) ==
    LET k == PositionOf(p.order, index)
    IN IF k < Len(p.order) THEN p.order[k + 1] ELSE EndIter

\* begin()
Begin(p) == IF p.order = <<>> THEN EndIter ELSE Head(p.order)

\* iterate(): the slots visited from begin() by increments until end().
RECURSIVE IterateFrom(_, _)
IterateFrom(p, iter) ==
    IF iter = EndIter THEN <<>>
    ELSE <<iter>> \o IterateFrom(p, NextInOrder(p, iter))

Iterate(p) == IterateFrom(p, Begin(p))

\* What a slot holds once its payload has been destructed.
Destructed == [destructed |-> TRUE]

FreeElement_NoLiveCheck(p, index) ==
    [slots |-> [p.slots EXCEPT ![index + 1] = [used |-> FALSE, data |-> Destructed]],
     order |-> Without(p.order, index),
     free |-> <<index>> \o p.free]

FreeElement_StaysInOrder(p, index) ==
    IF ~IsLive(p, index) THEN p
    ELSE [p EXCEPT !.free = <<index>> \o @]

\* free(handle): destruct the payload, unlink the slot from the iteration
\* order, push it on the free list. No-op on a slot that is already free.
FreeElement(p, index) ==
    IF ~IsLive(p, index) THEN p
    ELSE [slots |-> [p.slots EXCEPT ![index + 1] = [used |-> FALSE, data |-> Destructed]],
          order |-> Without(p.order, index),
          free |-> <<index>> \o p.free]

\* free(iterator): as free(handle), and returns the iterator after it.
FreeElementIter(p, iter) ==
    [pool |-> FreeElement(p, iter), next |-> NextInOrder(p, iter)]

\* A traversal of the pool from iterator iter on,
\*   for (auto iter = begin(); iter != end(); ++iter)
\* whose body, at the element at, frees the element target: the slots
\* visited, in order.
RECURSIVE TraverseFreeing(_, _, _, _)
TraverseFreeing(p, iter, at, target) ==
    IF iter = EndIter THEN <<>>
    ELSE LET p1 == IF iter = at THEN FreeElement(p, target) ELSE p
         IN <<iter>> \o TraverseFreeing(p1, NextInOrder(p1, iter), at, target)

\* The same traversal with a body that, at the element at, allocates an
\* element at placement loc.
RECURSIVE TraverseAllocating(_, _, _, _)
TraverseAllocating(p, iter, at, loc) ==
    IF iter = EndIter THEN <<>>
    ELSE LET p1 == IF iter = at THEN GetNewElement(p, loc, 0).pool ELSE p
         IN <<iter>> \o TraverseAllocating(p1, NextInOrder(p1, iter), at, loc)

----------------------------------------------------------------------------
(* Entity: the per-component index table.                                  *)

IsRegisteredForComponent(tbl, e, c) == tbl[e][c] # kUnusedComponentIndex

SetComponentDataIndex(tbl, e, c, index) == [tbl EXCEPT ![e][c] = index]

----------------------------------------------------------------------------
(* A program state S is [entities, pools, table, world, components, hooks,  *)
(* updates, writes, pass_render_list, undefined, aborted, diverges,         *)
(* cleaning]: entities is                                                  *)
(* the set of                                                              *)
(* entities that                                                           *)
(* exist, aborted is set once an assert of the call has failed,            *)
(* components the registered components in registration order, updates     *)
(* the UpdateAllEntities calls of the call in progress, hooks is           *)
(* the list of per-entity hook invocations of the call in progress, each   *)
(* with what the hook could observe of its entity when it ran; undefined   *)
(* is set once the call has dereferenced a null pointer, after which the   *)
(* build may crash or read and write anywhere, so that nothing the record  *)
(* holds can be relied on; diverges is set once the call has entered a     *)
(* recursion that has no end, and cleaning holds the (entity, component)   *)
(* pairs whose CleanupEntity has been entered and has not returned;        *)
(* writes is the list of the writes of the call in progress to an          *)
(* entity's transform ("transform") and to the world transforms of the     *)
(* bodies, by index, of an entity ("rigid_bodies"); pass_render_list is    *)
(* RenderMeshComponent's list of entries per render pass.                  *)

\* Component::GetComponentDataIndex
GetComponentDataIndex(S, e, c) == S.table[e][c]

\* Component::GetComponentData(size_t data_index)
GetComponentDataAt(S, c, data_index) ==
    IF data_index = kUnusedComponentIndex THEN nullptr
    ELSE GetElementData(S.pools[c], data_index)

\* Component::GetComponentData(const EntityRef&)
GetComponentData(S, e, c) ==
    LET data_index == GetComponentDataIndex(S, e, c)
    IN IF data_index >= Size(S.pools[c]) THEN nullptr
       ELSE GetComponentDataAt(S, c, data_index)

\* EntityManager::GetComponentData<T>(entity), reached through
\* Component::Data<T>(entity): the entity's index into the pool of T's
\* component, fetched from that pool.
Data(S, e, c) ==
    LET data_index == S.table[e][c]
    IN IF data_index = kUnusedComponentIndex THEN nullptr
       ELSE GetElementData(S.pools[c], data_index)

HookRecord(S, hook, e, c) ==
    [hook |-> hook, e |-> e, c |-> c,
     entityLive |-> e \in S.entities,
     registered |-> IsRegisteredForComponent(S.table, e, c),
     slotLive |-> IsLive(S.pools[c], S.table[e][c]),
     readable |-> GetComponentData(S, e, c) # nullptr]

LogHook(S, hook, e, c) ==
    [S EXCEPT !.hooks = Append(@, HookRecord(S, hook, e, c))]

\* PhysicsComponent::DisablePhysics. physics_data->enabled is read without a
\* null check.
DisablePhysics(S, e) ==
    LET physics_data == Data(S, e, Physics)
        rec == S.pools[Physics].slots[physics_data + 1].data.data
    IN IF physics_data = nullptr THEN [S EXCEPT !.undefined = TRUE]
       ELSE IF rec.enabled
       THEN [S EXCEPT !.pools[Physics].slots[physics_data + 1].data.data.enabled = FALSE,
                      !.world = @ \ {<<e, i>> : i \in 0..(rec.body_count - 1)}]
       ELSE S

\* PhysicsComponent::EnablePhysics
EnablePhysics(S, e) ==
    LET physics_data == Data(S, e, Physics)
        rec == S.pools[Physics].slots[physics_data + 1].data.data
    IN IF physics_data = nullptr THEN [S EXCEPT !.undefined = TRUE]
       ELSE IF ~rec.enabled
       THEN [S EXCEPT !.pools[Physics].slots[physics_data + 1].data.data.enabled = TRUE,
                      !.world = @ \cup {<<e, i>> : i \in 0..(rec.body_count - 1)}]
       ELSE S

\* PhysicsComponent::UpdatePhysicsObjectsTransform: the transform is read
\* without a null check once the physics data is known to exist.
UpdatePhysicsObjectsTransform(S, e, kinematic_only) ==
    LET physics_data == Data(S, e, Physics)
        rec == S.pools[Physics].slots[physics_data + 1].data.data
    IN IF physics_data = nullptr THEN S
       ELSE IF Data(S, e, Transform) = nullptr THEN [S EXCEPT !.undefined = TRUE]
       ELSE [S EXCEPT !.writes = Append(@,
                [target |-> "rigid_bodies", e |-> e,
                 bodies |-> {i \in 0..(rec.body_count - 1) :
                                ~(kinematic_only /\ ~rec.rigid_bodies[i + 1].kinematic)}])]

RECURSIVE PhysicsUpdateLoop_IgnoresEnabled(_, _)
PhysicsUpdateLoop_IgnoresEnabled(S, iter) ==
    IF iter = EndIter THEN S
    ELSE LET entity == S.pools[Physics].slots[iter + 1].data.entity
             physics_data == Data(S, entity, Physics)
             transform_data == Data(S, entity, Transform)
             rec == S.pools[Physics].slots[physics_data + 1].data.data
             next == NextInOrder(S.pools[Physics], iter)
         IN IF physics_data = nullptr THEN [S EXCEPT !.undefined = TRUE]
            ELSE IF rec.body_count = 0
            THEN PhysicsUpdateLoop_IgnoresEnabled(S, next)
            ELSE LET S1 == IF rec.rigid_bodies[1].kinematic THEN S
                           ELSE IF transform_data = nullptr
                           THEN [S EXCEPT !.undefined = TRUE]
                           ELSE [S EXCEPT !.pools[Transform].slots[transform_data + 1]
                                              .data.data.position = "moved",
                                          !.writes = Append(@,
                                              [target |-> "transform", e |-> entity,
                                               bodies |-> {}])]
                 IN PhysicsUpdateLoop_IgnoresEnabled(
                        UpdatePhysicsObjectsTransform(S1, entity, TRUE), next)

\* The loop of PhysicsComponent::UpdateAllEntities, from iterator iter on:
\* the transform of an enabled entity whose first body is not kinematic is
\* overwritten with the position the physics world computed.
RECURSIVE PhysicsUpdateLoop(_, _)
PhysicsUpdateLoop(S, iter) ==
    IF iter = EndIter THEN S
    ELSE LET entity == S.pools[Physics].slots[iter + 1].data.entity
             physics_data == Data(S, entity, Physics)
             transform_data == Data(S, entity, Transform)
             rec == S.pools[Physics].slots[physics_data + 1].data.data
             next == NextInOrder(S.pools[Physics], iter)
         IN IF physics_data = nullptr THEN [S EXCEPT !.undefined = TRUE]
            ELSE IF rec.body_count = 0 \/ ~rec.enabled
            THEN PhysicsUpdateLoop(S, next)
            ELSE LET S1 == IF rec.rigid_bodies[1].kinematic THEN S
                           ELSE IF transform_data = nullptr
                           THEN [S EXCEPT !.undefined = TRUE]
                           ELSE [S EXCEPT !.pools[Transform].slots[transform_data + 1]
                                              .data.data.position = "moved",
                                          !.writes = Append(@,
                                              [target |-> "transform", e |-> entity,
                                               bodies |-> {}])]
                 IN PhysicsUpdateLoop(
                        UpdatePhysicsObjectsTransform(S1, entity, TRUE), next)

\* UpdateAllEntities of each component: PhysicsComponent steps the world and
\* copies positions to the transforms; the Component default does nothing.
UpdateAllEntities(S, c) ==
    LET S1 == [S EXCEPT !.updates = Append(@, c)]
    IN IF c = Physics THEN PhysicsUpdateLoop(S1, Begin(S1.pools[Physics]))
       ELSE S1

RECURSIVE AddEntity(_, _, _, _)
RECURSIVE InitEntity(_, _, _)

\* EntityManager::AddEntityToComponent<T>(entity): dispatch to T's AddEntity.
AddEntityToComponent(S, e, c) == AddEntity(S, e, c, kAddToBack).st

\* InitEntity of each component: PhysicsComponent and RenderMeshComponent
\* require a transform; each of the two mutually dependent components
\* requires the other; the Component default does nothing.
InitEntity_NoDependency(S, e, c) == LogHook(S, "InitEntity", e, c)

InitEntity(S, e, c) ==
    LET S1 == LogHook(S, "InitEntity", e, c)
    IN IF c \in {Physics, RenderMesh} THEN AddEntityToComponent(S1, e, Transform)
       ELSE IF c = CycleX THEN AddEntityToComponent(S1, e, CycleY)
       ELSE IF c = CycleY THEN AddEntityToComponent(S1, e, CycleX)
       ELSE S1

RECURSIVE RemoveEntity(_, _, _)
RECURSIVE CleanupEntity(_, _, _)

\* The loop of the cascading component's CleanupEntity: RemoveEntity on
\* each of the entities in dependents that is registered with the
\* component, in ascending order.
RECURSIVE RemoveDependents(_, _, _)
RemoveDependents(S, c, dependents) ==
    IF dependents = {} \/ S.diverges THEN S
    ELSE LET d == CHOOSE x \in dependents : \A y \in dependents : x <= y
             S1 == IF IsRegisteredForComponent(S.table, d, c)
                   THEN RemoveEntity(S, d, c) ELSE S
         IN RemoveDependents(S1, c, dependents \ {d})

\* CleanupEntity of each component: PhysicsComponent disables physics; the
\* cascading component removes the dependents its record of the entity
\* names; the Component default does nothing. A CleanupEntity entered for an entity whose
\* CleanupEntity has not returned finds the entity and its dependents
\* registered as the outer one did, and so recurses without end: the call
\* never returns (diverges).
CleanupEntity(S, e, c) ==
    LET S1 == LogHook(S, "CleanupEntity", e, c)
    IN IF c = Physics THEN DisablePhysics(S1, e)
       ELSE IF c = Cascade
       THEN IF Data(S1, e, c) = nullptr THEN S1
            ELSE IF <<e, c>> \in S.cleaning THEN [S1 EXCEPT !.diverges = TRUE]
            ELSE LET S2 == RemoveDependents(
                               [S1 EXCEPT !.cleaning = @ \cup {<<e, c>>}], c,
                               S1.pools[c].slots[S1.table[e][c] + 1].data.data.dependents)
                 IN [S2 EXCEPT !.cleaning = @ \ {<<e, c>>}]
       ELSE S1

\* Component::RemoveEntityInternal
RemoveEntityInternal(S, e, c) == CleanupEntity(S, e, c)

\* Component::AddEntity(EntityRef&, AllocationLocation)
AddEntity_SkipsInitEntity(S, e, c, alloc_location) ==
    IF IsRegisteredForComponent(S.table, e, c)
    THEN [st |-> S, ret |-> GetComponentData(S, e, c)]
    ELSE LET new == GetNewElement(S.pools[c], alloc_location, DefaultComponentData(c))
             index == new.index
             S1 == [S EXCEPT !.pools[c] = new.pool,
                             !.table = SetComponentDataIndex(@, e, c, index)]
             S2 == [S1 EXCEPT !.pools[c].slots[index + 1].data.entity = e]
         IN [st |-> S2, ret |-> index]

AddEntity_InitBeforeIndex(S, e, c, alloc_location) ==
    IF IsRegisteredForComponent(S.table, e, c)
    THEN [st |-> S, ret |-> GetComponentData(S, e, c)]
    ELSE LET S0 == InitEntity(S, e, c)
             new == GetNewElement(S0.pools[c], alloc_location, DefaultComponentData(c))
             index == new.index
             S1 == [S0 EXCEPT !.pools[c] = new.pool,
                              !.table = SetComponentDataIndex(@, e, c, index)]
             S2 == [S1 EXCEPT !.pools[c].slots[index + 1].data.entity = e]
         IN [st |-> S2, ret |-> index]

AddEntity(S, e, c, alloc_location) ==
    IF IsRegisteredForComponent(S.table, e, c)
    THEN [st |-> S, ret |-> GetComponentData(S, e, c)]
    ELSE LET new == GetNewElement(S.pools[c], alloc_location, DefaultComponentData(c))
             index == new.index
             S1 == [S EXCEPT !.pools[c] = new.pool,
                             !.table = SetComponentDataIndex(@, e, c, index)]
             S2 == [S1 EXCEPT !.pools[c].slots[index + 1].data.entity = e]
             S3 == InitEntity(S2, e, c)
         IN [st |-> S3, ret |-> index]

\* Component::RemoveEntity(EntityRef&); nothing follows a RemoveEntityInternal
\* that does not return.
RemoveEntity_KeepsIndex(S, e, c) ==
    LET S1 == RemoveEntityInternal(S, e, c)
    IN [S1 EXCEPT !.pools[c] = FreeElement(@, GetComponentDataIndex(S1, e, c))]

RemoveEntity_SkipsCleanup(S, e, c) ==
    LET S2 == [S EXCEPT !.pools[c] = FreeElement(@, GetComponentDataIndex(S, e, c))]
    IN [S2 EXCEPT !.table = SetComponentDataIndex(@, e, c, kUnusedComponentIndex)]

RemoveEntity(S, e, c) ==
    LET S1 == RemoveEntityInternal(S, e, c)
        S2 == [S1 EXCEPT !.pools[c] = FreeElement(@, GetComponentDataIndex(S1, e, c))]
    IN IF S1.diverges THEN S1
       ELSE [S2 EXCEPT !.table = SetComponentDataIndex(@, e, c, kUnusedComponentIndex)]

\* Component::RemoveEntity(EntityIterator)
RemoveEntityIter_SkipsFree(S, c, iter) ==
    LET entity == S.pools[c].slots[iter + 1].data.entity
        S1 == RemoveEntityInternal(S, entity, c)
        freed == FreeElementIter(S1.pools[c], iter)
    IN [st |-> [S1 EXCEPT !.table = SetComponentDataIndex(@, entity, c,
                                                          kUnusedComponentIndex)],
        ret |-> freed.next]

RemoveEntityIter_ReturnsBegin(S, c, iter) ==
    LET entity == S.pools[c].slots[iter + 1].data.entity
        S1 == RemoveEntityInternal(S, entity, c)
        freed == FreeElementIter(S1.pools[c], iter)
        S2 == [S1 EXCEPT !.pools[c] = freed.pool]
    IN [st |-> [S2 EXCEPT !.table = SetComponentDataIndex(@, entity, c,
                                                          kUnusedComponentIndex)],
        ret |-> Begin(freed.pool)]

RemoveEntityIter(S, c, iter) ==
    LET entity == S.pools[c].slots[iter + 1].data.entity
        S1 == RemoveEntityInternal(S, entity, c)
        freed == FreeElementIter(S1.pools[c], iter)
        S2 == [S1 EXCEPT !.pools[c] = freed.pool]
    IN IF S1.diverges THEN [st |-> S1, ret |-> EndIter]
       ELSE [st |-> [S2 EXCEPT !.table = SetComponentDataIndex(@, entity, c,
                                                               kUnusedComponentIndex)],
             ret |-> freed.next]

\* A traversal of component c from iterator iter on that removes the current
\* element when its entity is in R and continues from the iterator
\* RemoveEntity(iter) returned, and steps to the next element otherwise:
\*   for (auto iter = begin(); iter != end();)
\*     iter = remove(iter->entity) ? RemoveEntity(iter) : ++iter;
RECURSIVE TraverseRemoving(_, _, _, _)
TraverseRemoving(S, c, iter, R) ==
    IF iter = EndIter THEN [st |-> S, visited |-> <<>>]
    ELSE LET entity == S.pools[c].slots[iter + 1].data.entity
             step == IF entity \in R THEN RemoveEntityIter(S, c, iter)
                     ELSE [st |-> S, ret |-> NextInOrder(S.pools[c], iter)]
             rest == TraverseRemoving(step.st, c, step.ret, R)
         IN [st |-> rest.st, visited |-> <<entity>> \o rest.visited]

\* The loop of Component::ClearComponentData, from iterator iter on.
RECURSIVE ClearLoop(_, _, _)
ClearLoop(S, c, iter) ==
    IF iter = EndIter THEN S
    ELSE LET r == RemoveEntityIter(S, c, iter)
         IN ClearLoop(r.st, c, r.ret)

\* Component::ClearComponentData
ClearComponentData_RemovesFirstOnly(S, c) ==
    LET iter == Begin(S.pools[c])
    IN IF iter = EndIter THEN S ELSE RemoveEntityIter(S, c, iter).st

ClearComponentData(S, c) == ClearLoop(S, c, Begin(S.pools[c]))

----------------------------------------------------------------------------
(* Raw data: AddFromRawData and ExportRawData of the library's components. *)
(* A PhysicsDef is [shapes, kinematic], shapes the number of shapes of the *)
(* definition (0 for none or an absent list); a RenderMeshDef is           *)
(* [source_file, shader, render_pass], a string being kNull when the       *)
(* field is absent and render_pass [present, passes]; a GraphDef is        *)
(* [filename_list], [present, names].                                      *)

kNull == "(null)"

\* ExportRawData's nullptr.
NullRawData == [null |-> TRUE]

\* The call returned to its caller.
Returned(S) == ~S.undefined /\ ~S.aborted /\ ~S.diverges

\* assert(cond) in a build with (ndebug) or without NDEBUG.
AssertThat(S, cond, ndebug) ==
    IF ndebug \/ cond \/ S.aborted THEN S ELSE [S EXCEPT !.aborted = TRUE]

\* The collision layers: BulletCollisionType is a set of bit flags, each
\* layer a power of two below BulletCollisionType_End.
BulletCollisionType_Raycast == 2
BulletCollisionType_End == 4

\* The shape that AddFromRawData makes for a BulletShapeDef of type
\* data_type, and the type that ExportRawData writes for a shape.
ShapeOfDef(data_type) ==
    CASE data_type = "BulletSphereDef" -> "SPHERE_SHAPE_PROXYTYPE"
      [] data_type = "BulletBoxDef" -> "BOX_SHAPE_PROXYTYPE"
      [] data_type = "BulletCylinderDef" -> "CYLINDER_SHAPE_PROXYTYPE"
      [] data_type = "BulletCapsuleDef" -> "CAPSULE_SHAPE_PROXYTYPE"
      [] data_type = "BulletConeDef" -> "CONE_SHAPE_PROXYTYPE"
      [] data_type = "BulletStaticPlaneDef" -> "STATIC_PLANE_PROXYTYPE"
      [] OTHER -> "EMPTY_SHAPE_PROXYTYPE"

DefOfShape(shape) ==
    CASE shape = "SPHERE_SHAPE_PROXYTYPE" -> "BulletSphereDef"
      [] shape = "BOX_SHAPE_PROXYTYPE" -> "BulletBoxDef"
      [] shape = "CYLINDER_SHAPE_PROXYTYPE" -> "BulletCylinderDef"
      [] shape = "CAPSULE_SHAPE_PROXYTYPE" -> "BulletCapsuleDef"
      [] shape = "CONE_SHAPE_PROXYTYPE" -> "BulletConeDef"
      [] shape = "STATIC_PLANE_PROXYTYPE" -> "BulletStaticPlaneDef"
      [] OTHER -> "BulletNoShapeDef"

RigidBodyOfDef_FlagOnly(physics_def, index) ==
    LET shape_def == physics_def.shapes[index]
    IN [kinematic |-> physics_def.kinematic,
        should_export |-> TRUE,
        shape |-> ShapeOfDef(shape_def.data_type),
        collision_type |-> shape_def.collision_type,
        collides_with |-> IF shape_def.collides_with.present
                          THEN shape_def.collides_with.layers ELSE {}]

\* The RigidBodyData that AddFromRawData fills in for the index-th shape.
RigidBodyOfDef(physics_def, index) ==
    LET shape_def == physics_def.shapes[index]
    IN [kinematic |-> (index > 1 \/ physics_def.kinematic),
        should_export |-> TRUE,
        shape |-> ShapeOfDef(shape_def.data_type),
        collision_type |-> shape_def.collision_type,
        collides_with |-> IF shape_def.collides_with.present
                          THEN shape_def.collides_with.layers ELSE {}]

\* The BulletShapeDef that ExportRawData writes for a body: of its
\* collides_with, the layers below BulletCollisionType_End.
DefOfRigidBody(body) ==
    [data_type |-> DefOfShape(body.shape),
     collision_type |-> body.collision_type,
     collides_with |->
         [present |-> TRUE,
          layers |-> {layer \in body.collides_with : layer < BulletCollisionType_End}]]

PhysicsAddFromRawData_NoLimit(S, e, physics_def) ==
    LET call == AddEntity(S, e, Physics, kAddToBack)
        physics_data == call.ret
        shape_count == Len(physics_def.shapes)
        bodies == [index \in 1..shape_count |-> RigidBodyOfDef(physics_def, index)]
        S1 == IF Len(physics_def.shapes) > 0
              THEN [call.st EXCEPT
                       !.pools[Physics].slots[physics_data + 1].data.data.body_count
                           = shape_count,
                       !.pools[Physics].slots[physics_data + 1].data.data.rigid_bodies
                           = bodies,
                       !.world = @ \cup {<<e, i>> : i \in 0..(shape_count - 1)}]
              ELSE call.st
        S2 == [S1 EXCEPT !.pools[Physics].slots[physics_data + 1].data.data.enabled
                            = TRUE]
    IN IF physics_data = nullptr THEN [call.st EXCEPT !.undefined = TRUE]
       ELSE UpdatePhysicsObjectsTransform(S2, e, FALSE)

\* PhysicsComponent::AddFromRawData
PhysicsAddFromRawData(S, e, physics_def) ==
    LET call == AddEntity(S, e, Physics, kAddToBack)
        physics_data == call.ret
        shape_count == IF Len(physics_def.shapes) > kMaxPhysicsBodies
                       THEN kMaxPhysicsBodies ELSE Len(physics_def.shapes)
        bodies == [index \in 1..shape_count |-> RigidBodyOfDef(physics_def, index)]
        S1 == IF Len(physics_def.shapes) > 0
              THEN [call.st EXCEPT
                       !.pools[Physics].slots[physics_data + 1].data.data.body_count
                           = shape_count,
                       !.pools[Physics].slots[physics_data + 1].data.data.rigid_bodies
                           = bodies,
                       !.world = @ \cup {<<e, i>> : i \in 0..(shape_count - 1)}]
              ELSE call.st
        S2 == [S1 EXCEPT !.pools[Physics].slots[physics_data + 1].data.data.enabled
                            = TRUE]
    IN IF physics_data = nullptr THEN [call.st EXCEPT !.undefined = TRUE]
       ELSE UpdatePhysicsObjectsTransform(S2, e, FALSE)

\* PhysicsComponent::ExportRawData
PhysicsExportRawData(S, e) ==
    LET data == GetComponentData(S, e, Physics)
        rec == S.pools[Physics].slots[data + 1].data.data
        shape_vector == SelectSeq(rec.rigid_bodies, LAMBDA body : body.should_export)
    IN IF data = nullptr THEN NullRawData
       ELSE IF Len(shape_vector) = 0 THEN NullRawData
       ELSE [null |-> FALSE,
             shapes |-> [k \in 1..Len(shape_vector) |-> DefOfRigidBody(shape_vector[k])],
             kinematic |-> rec.rigid_bodies[1].kinematic]

GenerateRaycastShape_NoRaycastCheck(S, e, result_exportable) ==
    LET data == GetComponentData(S, e, Physics)
        rec == S.pools[Physics].slots[data + 1].data.data
        rb_data == [kinematic |-> TRUE,
                    should_export |-> result_exportable,
                    shape |-> "BOX_SHAPE_PROXYTYPE",
                    collision_type |-> BulletCollisionType_Raycast,
                    collides_with |-> {BulletCollisionType_Raycast}]
    IN IF data = nullptr THEN [S EXCEPT !.undefined = TRUE]
       ELSE IF rec.body_count = kMaxPhysicsBodies THEN S
       ELSE IF Data(S, e, Transform) = nullptr THEN [S EXCEPT !.undefined = TRUE]
       ELSE [S EXCEPT
                !.pools[Physics].slots[data + 1].data.data.rigid_bodies
                    = Append(@, rb_data),
                !.pools[Physics].slots[data + 1].data.data.body_count = @ + 1,
                !.pools[Physics].slots[data + 1].data.data.enabled = TRUE,
                !.world = @ \cup {<<e, rec.body_count>>}]

\* PhysicsComponent::GenerateRaycastShape: a kinematic box body for ray
\* casts, added after the entity's bodies unless the entity has
\* kMaxPhysicsBodies bodies or one that collides with the raycast layer;
\* the physics data and the transform are read without a null check.
GenerateRaycastShape(S, e, result_exportable) ==
    LET data == GetComponentData(S, e, Physics)
        rec == S.pools[Physics].slots[data + 1].data.data
        rb_data == [kinematic |-> TRUE,
                    should_export |-> result_exportable,
                    shape |-> "BOX_SHAPE_PROXYTYPE",
                    collision_type |-> BulletCollisionType_Raycast,
                    collides_with |-> {BulletCollisionType_Raycast}]
    IN IF data = nullptr THEN [S EXCEPT !.undefined = TRUE]
       ELSE IF rec.body_count = kMaxPhysicsBodies THEN S
       ELSE IF \E index \in 1..rec.body_count :
                  BulletCollisionType_Raycast \in rec.rigid_bodies[index].collides_with
       THEN S
       ELSE IF Data(S, e, Transform) = nullptr THEN [S EXCEPT !.undefined = TRUE]
       ELSE [S EXCEPT
                !.pools[Physics].slots[data + 1].data.data.rigid_bodies
                    = Append(@, rb_data),
                !.pools[Physics].slots[data + 1].data.data.body_count = @ + 1,
                !.pools[Physics].slots[data + 1].data.data.enabled = TRUE,
                !.world = @ \cup {<<e, rec.body_count>>}]

\* RenderMeshComponent::AddFromRawData; mesh_loads and shader_loads are
\* whether the asset manager finds the mesh and the shader.
RenderMeshAddFromRawData(S, e, rendermesh_def, mesh_loads, shader_loads, ndebug) ==
    LET A1 == AssertThat(S, rendermesh_def.source_file # kNull, ndebug)
        A2 == AssertThat(A1, rendermesh_def.shader # kNull, ndebug)
        call == AddEntity(A2, e, RenderMesh, kAddToBack)
        rendermesh_data == call.ret
        S1 == [call.st EXCEPT
                  !.pools[RenderMesh].slots[rendermesh_data + 1].data.data.mesh_filename
                      = rendermesh_def.source_file,
                  !.pools[RenderMesh].slots[rendermesh_data + 1].data.data.shader_filename
                      = rendermesh_def.shader,
                  !.pools[RenderMesh].slots[rendermesh_data + 1].data.data.ignore_culling
                      = rendermesh_def.ignore_culling]
        A3 == AssertThat(S1, mesh_loads, ndebug)
        A4 == AssertThat(A3, shader_loads, ndebug)
        A5 == IF rendermesh_def.render_pass.present
              THEN AssertThat(A4, \A render_pass \in rendermesh_def.render_pass.passes :
                                     render_pass < RenderPass_kCount, ndebug)
              ELSE A4
        pass_mask == IF rendermesh_def.render_pass.present
                     THEN rendermesh_def.render_pass.passes
                     ELSE {RenderPass_kOpaque}
    IN IF A2.aborted THEN A2
       ELSE IF rendermesh_data = nullptr THEN [call.st EXCEPT !.undefined = TRUE]
       ELSE IF rendermesh_def.source_file = kNull \/ rendermesh_def.shader = kNull
       THEN [call.st EXCEPT !.undefined = TRUE]
       ELSE IF A3.aborted THEN A3
       ELSE IF A4.aborted THEN A4
       ELSE IF A5.aborted THEN A5
       ELSE [A5 EXCEPT
                !.pools[RenderMesh].slots[rendermesh_data + 1].data.data.currently_hidden
                    = rendermesh_def.hidden,
                !.pools[RenderMesh].slots[rendermesh_data + 1].data.data.pass_mask
                    = pass_mask]

\* RenderMeshComponent::ExportRawData; hidden is not written, and reads as
\* the schema's default in the raw data.
RenderMeshExportRawData_NoFilenameCheck(S, e) ==
    LET data == GetComponentData(S, e, RenderMesh)
        rec == S.pools[RenderMesh].slots[data + 1].data.data
    IN IF data = nullptr THEN NullRawData
       ELSE [null |-> FALSE, source_file |-> rec.mesh_filename,
             shader |-> rec.shader_filename,
             ignore_culling |-> rec.ignore_culling, hidden |-> FALSE,
             render_pass |->
                 [present |-> TRUE,
                  passes |-> {i \in 0..(RenderPass_kCount - 1) : i \in rec.pass_mask}]]

RenderMeshExportRawData(S, e) ==
    LET data == GetComponentData(S, e, RenderMesh)
        rec == S.pools[RenderMesh].slots[data + 1].data.data
    IN IF data = nullptr THEN NullRawData
       ELSE IF rec.mesh_filename = "" \/ rec.shader_filename = "" THEN NullRawData
       ELSE [null |-> FALSE, source_file |-> rec.mesh_filename,
             shader |-> rec.shader_filename,
             ignore_culling |-> rec.ignore_culling, hidden |-> FALSE,
             render_pass |->
                 [present |-> TRUE,
                  passes |-> {i \in 0..(RenderPass_kCount - 1) : i \in rec.pass_mask}]]

\* The loop of RenderMeshComponent::RenderPrep over the pool, from iterator
\* iter on: an entry for the entity in the list of each pass of its
\* pass_mask, unless the entity is hidden or culled; in_view is the set of
\* entities the camera's view cone holds. The render mesh data is read
\* without a null check, and so is the transform when the entity is not
\* exempt from culling.
RECURSIVE RenderPrepLoop(_, _, _)
RenderPrepLoop(S, iter, in_view) ==
    IF iter = EndIter THEN S
    ELSE LET entity == S.pools[RenderMesh].slots[iter + 1].data.entity
             rendermesh_data == GetComponentData(S, entity, RenderMesh)
             transform_data == Data(S, entity, Transform)
             rec == S.pools[RenderMesh].slots[rendermesh_data + 1].data.data
             next == NextInOrder(S.pools[RenderMesh], iter)
             passes == {pass \in 0..(RenderPass_kCount - 1) : pass \in rec.pass_mask}
         IN IF rendermesh_data = nullptr THEN [S EXCEPT !.undefined = TRUE]
            ELSE IF passes = {} \/ rec.currently_hidden
            THEN RenderPrepLoop(S, next, in_view)
            ELSE IF ~rec.ignore_culling /\ transform_data = nullptr
            THEN [S EXCEPT !.undefined = TRUE]
            ELSE IF ~rec.ignore_culling /\ entity \notin in_view
            THEN RenderPrepLoop(S, next, in_view)
            ELSE RenderPrepLoop(
                     [S EXCEPT !.pass_render_list =
                         [pass \in DOMAIN @ |->
                             IF pass \in passes
                             THEN Append(@[pass], [entity |-> entity, data |-> iter])
                             ELSE @[pass]]],
                     next, in_view)

\* RenderMeshComponent::RenderPrep: the lists are cleared, filled in
\* iteration order and sorted by depth, which reorders a list and changes
\* neither its length nor its entries.
RenderPrep(S, in_view) ==
    RenderPrepLoop(
        [S EXCEPT !.pass_render_list = [pass \in DOMAIN @ |-> <<>>]],
        Begin(S.pools[RenderMesh]), in_view)

\* RenderMeshComponent::RenderPass(pass_id, ...), from the i-th entry of the
\* list on: the render mesh data and the transform of the entry's entity
\* are looked up by entity and read without a null check.
RECURSIVE RenderPassFrom(_, _, _)
RenderPassFrom(S, pass_id, i) ==
    IF i > Len(S.pass_render_list[pass_id]) THEN S
    ELSE LET entity == S.pass_render_list[pass_id][i].entity
             rendermesh_data == Data(S, entity, RenderMesh)
             transform_data == Data(S, entity, Transform)
         IN IF transform_data = nullptr \/ rendermesh_data = nullptr
            THEN [S EXCEPT !.undefined = TRUE]
            ELSE RenderPassFrom(
                     [S EXCEPT !.writes = Append(@,
                         [target |-> "render", e |-> entity, bodies |-> {}])],
                     pass_id, i + 1)

RenderPass(S, pass_id) == RenderPassFrom(S, pass_id, 1)

\* RenderMeshComponent::SetHiddenRecursively, for an entity whose transform
\* has no children.
SetHiddenRecursively(S, e, hidden) ==
    LET rendermesh_data == Data(S, e, RenderMesh)
        transform_data == Data(S, e, Transform)
    IN IF transform_data # nullptr /\ rendermesh_data # nullptr
       THEN [S EXCEPT !.pools[RenderMesh].slots[rendermesh_data + 1]
                         .data.data.currently_hidden = hidden]
       ELSE S

\* GraphComponent::GetCreateBroadcaster: the entity's graph record, made by
\* AddEntity when the entity has none.
GetCreateBroadcaster(S, e) ==
    IF Data(S, e, Graph) = nullptr THEN AddEntity(S, e, Graph, kAddToBack).st
    ELSE S

\* GraphComponent::AddFromRawData
GraphAddFromRawData(S, e, graph_def) ==
    LET call == AddEntity(S, e, Graph, kAddToBack)
        graph_data == call.ret
        graphs == IF graph_def.filename_list.present
                  THEN graph_def.filename_list.names ELSE <<>>
    IN IF graph_data = nullptr THEN [call.st EXCEPT !.undefined = TRUE]
       ELSE [call.st EXCEPT
                !.pools[Graph].slots[graph_data + 1].data.data.graphs = graphs]

\* GraphComponent::ExportRawData
GraphExportRawData_NoNullCheck(S, e) ==
    LET data == GetComponentData(S, e, Graph)
        rec == IF data = nullptr THEN DefaultData(Graph)
               ELSE S.pools[Graph].slots[data + 1].data.data
    IN [null |-> FALSE,
        filename_list |-> [present |-> Len(rec.graphs) > 0, names |-> rec.graphs]]

GraphExportRawData(S, e) ==
    LET data == GetComponentData(S, e, Graph)
        rec == S.pools[Graph].slots[data + 1].data.data
    IN IF data = nullptr THEN NullRawData
       ELSE [null |-> FALSE,
             filename_list |-> [present |-> Len(rec.graphs) > 0, names |-> rec.graphs]]

\* The raw data that a component's AddFromRawData checks for and rejects:
\* RenderMeshComponent asserts that the mesh and shader names are present
\* and that every render pass is one of the enumeration; PhysicsComponent
\* and GraphComponent check nothing.
TreatedAsInvalid(c, def) ==
    /\ c = RenderMesh
    /\ \/ def.source_file = kNull
       \/ def.shader = kNull
       \/ /\ def.render_pass.present
          /\ \E render_pass \in def.render_pass.passes :
                 ~(render_pass < RenderPass_kCount)

\* AddFromRawData of component c, in a build with or without NDEBUG and with
\* the assets found or not found.
AddFromRawData(S, e, c, def, env) ==
    CASE c = Physics -> PhysicsAddFromRawData(S, e, def)
      [] c = RenderMesh -> RenderMeshAddFromRawData(S, e, def, env.mesh_loads,
                                                    env.shader_loads, env.ndebug)
      [] c = Graph -> GraphAddFromRawData(S, e, def)

\* ExportRawData of component c; the Component default returns nullptr.
ExportRawData(S, e, c) ==
    CASE c = Physics -> PhysicsExportRawData(S, e)
      [] c = RenderMesh -> RenderMeshExportRawData(S, e)
      [] c = Graph -> GraphExportRawData(S, e)
      [] OTHER -> NullRawData

----------------------------------------------------------------------------
(* EntityManager: creation and destruction of entities.                    *)

\* The orders in which the component ids can enumerate the components.
ComponentIdOrders ==
    {ids \in [1..Cardinality(Comps) -> Comps] :
        \A i, j \in 1..Cardinality(Comps) : ids[i] = ids[j] => i = j}

\* The order of the component ids in this process: the library's
\* components, then the game's.
ComponentIds == CHOOSE ids \in ComponentIdOrders : TRUE

AllComponentIds == ComponentIds \o <<CycleX, CycleY, Cascade>>

\* Registration of a component instance with the entity manager.
RegisterComponent(S, c) == [S EXCEPT !.components = Append(@, c)]

\* The per-frame pass: UpdateAllEntities on every registered component, in
\* registration order, from the k-th registered component on.
RECURSIVE UpdateComponentsFrom(_, _)
UpdateComponentsFrom(S, k) ==
    IF k > Len(S.components) THEN S
    ELSE UpdateComponentsFrom(UpdateAllEntities(S, S.components[k]), k + 1)

UpdateComponents_InIdOrder(S) ==
    LET ids == SelectSeq(ComponentIds,
                         LAMBDA c : \E k \in 1..Len(S.components) : S.components[k] = c)
    IN [UpdateComponentsFrom([S EXCEPT !.components = ids], 1)
           EXCEPT !.components = S.components]

UpdateComponents(S) == UpdateComponentsFrom(S, 1)

\* Creation of an entity in slot e of the entity pool: it is registered
\* with no component.
CreateEntity(S, e) ==
    [S EXCEPT !.entities = @ \cup {e},
              !.table[e] = [c \in AllComps |-> kUnusedComponentIndex]]

\* RemoveEntity on every component the entity is registered with, in the
\* order ids of the component ids, from the k-th id on.
RECURSIVE RemoveAllComponents(_, _, _, _)
RemoveAllComponents(S, e, ids, k) ==
    IF k > Len(ids) THEN S
    ELSE IF IsRegisteredForComponent(S.table, e, ids[k])
         THEN RemoveAllComponents(RemoveEntity(S, e, ids[k]), e, ids, k + 1)
         ELSE RemoveAllComponents(S, e, ids, k + 1)

\* Destruction of an entity: unregister it everywhere, then free its slot.
DestroyEntity(S, e, ids) ==
    [RemoveAllComponents(S, e, ids, 1) EXCEPT !.entities = @ \ {e}]

\* A caller writing TransformData::position through the TransformData* that
\* AddEntity or GetComponentData returned.
WriteData(S, ptr, v) ==
    [S EXCEPT !.pools[Transform].slots[ptr + 1].data.data.position = v]

----------------------------------------------------------------------------
(* The state machine of the entity/component runtime: an entity manager    *)
(* holding NumEntities entities, driven through the public operations of   *)
(* the components in SpecComps.                                            *)

SpecComps == {Transform, Physics}

Cur ==
    [entities |-> entities, pools |-> pools, table |-> table, world |-> world,
     components |-> components, hooks |-> <<>>, updates |-> <<>>,
     writes |-> <<>>,
     pass_render_list |-> [pass \in 0..(RenderPass_kCount - 1) |-> <<>>],
     undefined |-> FALSE, aborted |-> FALSE, diverges |-> FALSE, cleaning |-> {}]

Store(S) ==
    /\ entities' = S.entities
    /\ pools' = S.pools
    /\ table' = S.table
    /\ world' = S.world

Commit(S) ==
    /\ Store(S)
    /\ UNCHANGED <<components, updates, vp, written, nalloc, nfree>>

\* No entity yet, and nothing but the components registered so far.
InitWith(registered) ==
    /\ entities = {}
    /\ pools = [c \in AllComps |-> EmptyPool]
    /\ table = [e \in Entities |-> [c \in AllComps |-> kUnusedComponentIndex]]
    /\ world = {}
    /\ components = registered
    /\ updates = <<>>
    /\ vp = EmptyPool
    /\ written = <<>>
    /\ nalloc = 0
    /\ nfree = 0

\* The state once every component is registered with the entity manager.
Init == InitWith(ComponentIds)

\* AddEntity(entity, alloc_location), on any entity, registered or not.
DoAddEntity ==
    \E e \in entities, c \in SpecComps, loc \in AllocationLocation :
        /\ loc \in AllocationLocation
        /\ Commit(AddEntity(Cur, e, c, loc).st)

\* RemoveEntity(entity) on an entity registered with the component.
DoRemoveEntity ==
    \E e \in entities, c \in SpecComps :
        /\ IsRegisteredForComponent(table, e, c)
        /\ Commit(RemoveEntity(Cur, e, c))

\* RemoveEntity(iter) on an iterator reached from begin() by increments.
DoRemoveEntityIter ==
    \E c \in SpecComps :
        \E k \in 1..Len(pools[c].order) :
            /\ pools[c].order[k] # EndIter
            /\ Commit(RemoveEntityIter(Cur, c, pools[c].order[k]).st)

DoClearComponentData ==
    \E c \in SpecComps :
        /\ c \in Comps
        /\ Commit(ClearComponentData(Cur, c))

\* A caller that checked the pointer it got, then wrote through it (a step
\* of the loading and saving process below; the registry never reads the
\* position).
DoWriteData ==
    \E e \in entities, v \in Positions :
        /\ GetComponentData(Cur, e, Transform) # nullptr
        /\ Commit(WriteData(Cur, GetComponentData(Cur, e, Transform), v))

DoEnablePhysics ==
    \E e \in entities :
        /\ Data(Cur, e, Physics) # nullptr
        /\ Commit(EnablePhysics(Cur, e))

DoDisablePhysics ==
    \E e \in entities :
        /\ Data(Cur, e, Physics) # nullptr
        /\ Commit(DisablePhysics(Cur, e))

DoCreateEntity ==
    \E e \in Entities :
        /\ e \notin entities
        /\ Commit(CreateEntity(Cur, e))

\* The component ids are assigned once, for the lifetime of the process.
DoDestroyEntity ==
    \E e \in entities :
        /\ e \in Entities
        /\ Commit(DestroyEntity(Cur, e, AllComponentIds))

Next ==
    \/ DoCreateEntity
    \/ DoDestroyEntity
    \/ DoAddEntity
    \/ DoRemoveEntity
    \/ DoRemoveEntityIter
    \/ DoClearComponentData
    \/ DoEnablePhysics
    \/ DoDisablePhysics

Spec == Init /\ [][Next]_vars

----------------------------------------------------------------------------
(* The entity manager from its start: components are registered, then      *)
(* entities are created, registered with components through the manager    *)
(* and destroyed, between per-frame passes.                                *)

\* The components that c's InitEntity asks the entity manager for.
Requires(c) ==
    IF c \in {Physics, RenderMesh} THEN {Transform}
    ELSE IF c \in CycleComps THEN CycleComps \ {c}
    ELSE {}

Registered(seq) == {seq[k] : k \in 1..Len(seq)}

InitFrame == InitWith(<<>>)

\* Registration happens at startup, before any entity is created and
\* before the first pass.
DoRegisterComponent ==
    \E c \in Comps :
        /\ c \notin Registered(components)
        /\ entities = {}
        /\ updates = <<>>
        /\ components' = RegisterComponent(Cur, c).components
        /\ UNCHANGED <<entities, pools, table, world, updates,
                       vp, written, nalloc, nfree>>

\* Creation of one of the first MaxFrameEntities entities.
DoCreateFrameEntity ==
    \E e \in 1..MaxFrameEntities :
        /\ e \notin entities
        /\ Commit(CreateEntity(Cur, e))

\* EntityManager::AddEntityToComponent<T>(entity), for a registered T whose
\* dependencies are registered.
DoAddEntityToComponent ==
    \E e \in entities, c \in Registered(components) :
        /\ Requires(c) \subseteq Registered(components)
        /\ Commit(AddEntityToComponent(Cur, e, c))

DoUpdateComponents ==
    /\ Store(UpdateComponents(Cur))
    /\ updates' = UpdateComponents(Cur).updates
    /\ UNCHANGED <<components, vp, written, nalloc, nfree>>

NextFrame ==
    \/ DoRegisterComponent
    \/ DoCreateFrameEntity
    \/ DoAddEntityToComponent
    \/ DoDestroyEntity
    \/ DoUpdateComponents

SpecFrame == InitFrame /\ [][NextFrame]_vars

----------------------------------------------------------------------------
(* Loading and saving: a process with TransformComponent and one of the    *)
(* library's other components registered, whose entities are created,      *)
(* populated from raw data, exported, removed and destroyed.               *)

\* The raw data handed to AddFromRawData of each component; a render pass
\* equal to RenderPass_kCount is one the enumeration does not have.
\* The shapes of a PhysicsDef: type, collision_type and collides_with (a
\* list of layers or none); a layer equal to BulletCollisionType_End is one
\* the enumeration does not have.
BulletShapeDefs ==
    [data_type : {"BulletSphereDef", "BulletBoxDef", "BulletNoShapeDef"},
     collision_type : {1, BulletCollisionType_Raycast},
     collides_with : {[present |-> FALSE, layers |-> {}]}
                       \cup {[present |-> TRUE, layers |-> L] :
                                L \in SUBSET {1, BulletCollisionType_End}}]

\* The sphere that collides with nothing.
PlainShapeDef ==
    [data_type |-> "BulletSphereDef", collision_type |-> 1,
     collides_with |-> [present |-> FALSE, layers |-> {}]]

\* The lists of at most MaxShapes shapes drawn from D.
ShapeLists(D) == UNION {[1..n -> D] : n \in 0..MaxShapes}

\* The definitions the loading process imports, and every definition.
PhysicsDefs == [shapes : ShapeLists({PlainShapeDef}), kinematic : BOOLEAN]

AllPhysicsDefs == [shapes : ShapeLists(BulletShapeDefs), kinematic : BOOLEAN]

\* The loading process imports visible meshes; an entity is hidden by
\* SetHiddenRecursively.
RenderMeshDefs ==
    [source_file : {kNull, "mesh"}, shader : {kNull, "shader"},
     ignore_culling : BOOLEAN, hidden : {FALSE},
     render_pass : {[present |-> FALSE, passes |-> {}],
                    [present |-> TRUE, passes |-> {}]}
                     \cup {[present |-> TRUE, passes |-> {render_pass}] :
                              render_pass \in RenderPass_kOpaque..RenderPass_kCount}]

\* The graph files a definition can name, and the lists of them in which no
\* file is named twice.
GraphFilenames == {"first_graph", "second_graph"}

GraphFilenameLists ==
    {<<>>} \cup {<<f>> : f \in GraphFilenames}
           \cup {<<f, g>> : <<f, g>> \in {p \in GraphFilenames \X GraphFilenames : p[1] # p[2]}}

GraphDefs ==
    [filename_list : {[present |-> FALSE, names |-> <<>>]}
                       \cup {[present |-> TRUE, names |-> names] :
                                names \in GraphFilenameLists}]

Defs(c) ==
    CASE c = Physics -> PhysicsDefs
      [] c = RenderMesh -> RenderMeshDefs
      [] c = Graph -> GraphDefs

\* The build (with or without NDEBUG) and what the asset manager finds;
\* only RenderMeshComponent asserts and loads assets.
Envs(c) ==
    IF c = RenderMesh
    THEN [mesh_loads : BOOLEAN, shader_loads : BOOLEAN, ndebug : BOOLEAN]
    ELSE [mesh_loads : {TRUE}, shader_loads : {TRUE}, ndebug : BOOLEAN]

\* The components that have their own raw data.
DataComps == {Physics, RenderMesh, Graph}

\* A process with the transform and one library component that has raw
\* data, or one with the two mutually dependent components.
InitImport ==
    \/ \E c \in DataComps : InitWith(<<Transform, c>>)
    \/ InitWith(<<CycleX, CycleY>>)

\* AddFromRawData(entity, raw_data) with any raw data of the component's
\* type; the process goes on when the call returns.
DoAddFromRawData ==
    \E e \in entities, c \in Registered(components) \cap DataComps :
        \E def \in Defs(c), env \in Envs(c) :
            /\ Returned(AddFromRawData(Cur, e, c, def, env))
            /\ Commit(AddFromRawData(Cur, e, c, def, env))

\* ExportRawData(entity) is const.
DoExportRawData ==
    \E e \in entities, c \in Registered(components) :
        LET raw_data == ExportRawData(Cur, e, c)
        IN /\ raw_data.null \in BOOLEAN
           /\ UNCHANGED vars

DoGetCreateBroadcaster ==
    \E e \in entities :
        /\ Graph \in Registered(components)
        /\ Commit(GetCreateBroadcaster(Cur, e))

DoRemoveFromComponent ==
    \E e \in entities, c \in Registered(components) :
        /\ IsRegisteredForComponent(table, e, c)
        /\ Commit(RemoveEntity(Cur, e, c))

NextImport ==
    \/ DoCreateFrameEntity
    \/ DoAddEntityToComponent
    \/ DoAddFromRawData
    \/ DoExportRawData
    \/ DoGetCreateBroadcaster
    \/ DoRemoveFromComponent
    \/ DoDestroyEntity
    \/ DoWriteData
    \/ DoEnablePhysics
    \/ DoDisablePhysics

SpecImport == InitImport /\ [][NextImport]_vars

----------------------------------------------------------------------------
(* A game with the transform and the cascading component: entities are    *)
(* created, registered, told their dependents and removed from the         *)
(* cascading component, singly or all at once.                             *)

\* A caller writing the dependents of an entity through the record pointer
\* that AddEntity or Data<T> returned.
SetDependents(S, ptr, dependents) ==
    [S EXCEPT !.pools[Cascade].slots[ptr + 1].data.data.dependents = dependents]

InitGame == InitWith(<<Transform, Cascade>>)

DoSetDependents ==
    \E e \in entities :
        \E dependents \in SUBSET (Entities \ {e}) :
            /\ Data(Cur, e, Cascade) # nullptr
            /\ Commit(SetDependents(Cur, Data(Cur, e, Cascade), dependents))

\* RemoveEntity(entity) on a registered entity; the process goes on when
\* the call returns.
DoRemoveGameEntity ==
    \E e \in entities, c \in Registered(components) :
        /\ c = Cascade
        /\ IsRegisteredForComponent(table, e, c)
        /\ Returned(RemoveEntity(Cur, e, c))
        /\ Commit(RemoveEntity(Cur, e, c))

DoClearGameData ==
    \E c \in Registered(components) :
        /\ c = Cascade
        /\ Returned(ClearComponentData(Cur, c))
        /\ Commit(ClearComponentData(Cur, c))

NextGame ==
    \/ DoCreateEntity
    \/ DoAddEntityToComponent
    \/ DoSetDependents
    \/ DoRemoveGameEntity
    \/ DoClearGameData

SpecGame == InitGame /\ [][NextGame]_vars

----------------------------------------------------------------------------
(* The physics world: a process with TransformComponent and                *)
(* PhysicsComponent registered, whose entities are created, given bodies   *)
(* from raw data and for ray casts, enabled, disabled, stepped and         *)
(* removed.                                                                *)

InitPhysics == InitWith(<<Transform, Physics>>)

\* The definitions this process imports: no shape, or MaxShapes spheres
\* that collide with nothing, kinematic or not.
WorldDefs ==
    [shapes : {<<>>, [index \in 1..MaxShapes |-> PlainShapeDef]},
     kinematic : BOOLEAN]

\* PhysicsComponent::AddFromRawData(entity, raw_data), on an entity that is
\* registered or not; the process goes on when the call returns.
DoPhysicsAddFromRawData ==
    \E e \in entities, physics_def \in WorldDefs :
        /\ Returned(PhysicsAddFromRawData(Cur, e, physics_def))
        /\ Commit(PhysicsAddFromRawData(Cur, e, physics_def))

\* GenerateRaycastShape(entity, result_exportable); the process goes on
\* when the call returns.
DoGenerateRaycastShape ==
    \E e \in entities, result_exportable \in BOOLEAN :
        /\ Returned(GenerateRaycastShape(Cur, e, result_exportable))
        /\ Commit(GenerateRaycastShape(Cur, e, result_exportable))

\* PhysicsComponent::UpdateAllEntities, once per frame.
DoPhysicsUpdate ==
    /\ Returned(UpdateAllEntities(Cur, Physics))
    /\ Store(UpdateAllEntities(Cur, Physics))
    /\ updates' = UpdateAllEntities(Cur, Physics).updates
    /\ UNCHANGED <<components, vp, written, nalloc, nfree>>

\* RemoveEntity(entity) on PhysicsComponent, for a registered entity.
DoRemovePhysicsEntity ==
    \E e \in entities :
        /\ IsRegisteredForComponent(table, e, Physics)
        /\ Returned(RemoveEntity(Cur, e, Physics))
        /\ Commit(RemoveEntity(Cur, e, Physics))

NextPhysics ==
    \/ DoCreateFrameEntity
    \/ DoPhysicsAddFromRawData
    \/ DoGenerateRaycastShape
    \/ DoEnablePhysics
    \/ DoDisablePhysics
    \/ DoPhysicsUpdate
    \/ DoRemovePhysicsEntity

SpecPhysics == InitPhysics /\ [][NextPhysics]_vars

----------------------------------------------------------------------------
(* The pool alone: a VectorPool<int> driven by allocate and free, each     *)
(* allocation followed by a write of its payload through the new handle.   *)

\* Writing v through the handle that GetNewElement returned.
SetPayload(p, index, v) == [p EXCEPT !.slots[index + 1].data = v]

PoolAllocate ==
    \E loc \in AllocationLocation, v \in Payloads :
        LET new == GetNewElement(vp, loc, 0)
        IN /\ nalloc < MaxAllocs
           /\ vp' = SetPayload(new.pool, new.index, v)
           /\ written' = [h \in DOMAIN written \cup {new.index} |->
                             IF h = new.index THEN v ELSE written[h]]
           /\ nalloc' = nalloc + 1
           /\ UNCHANGED <<nfree, entities, pools, table, world, components, updates>>

\* free(handle) of a live handle.
PoolFree ==
    \E h \in DOMAIN written :
        /\ vp' = FreeElement(vp, h)
        /\ written' = [g \in DOMAIN written \ {h} |-> written[g]]
        /\ nfree' = nfree + 1
        /\ UNCHANGED <<nalloc, entities, pools, table, world, components, updates>>

\* free(handle) of a handle whose slot is already free.
PoolFreeAgain ==
    \E h \in 0..(Len(vp.slots) - 1) :
        /\ ~IsLive(vp, h)
        /\ vp' = FreeElement(vp, h)
        /\ UNCHANGED <<written, nalloc, nfree, entities, pools, table, world, components, updates>>

NextPool ==
    \/ PoolAllocate
    \/ PoolFree
    \/ PoolFreeAgain

SpecPool == Init /\ [][NextPool]_vars

----------------------------------------------------------------------------
(* Properties. A property of a call is stated over every reachable state   *)
(* and every argument the call accepts there: the state the call leaves,   *)
(* the value it returns and the hooks it ran are those of the operator.    *)

\* The hook invocations of kind hook for the pair (e, c) in a call's log.
HookCalls(log, hook, e, c) ==
    {i \in 1..Len(log) : log[i].hook = hook /\ log[i].e = e /\ log[i].c = c}

\* The ComponentData that entity e holds in component c (e registered).
RecordOf(P, T, e, c) == P[c].slots[T[e][c] + 1].data

LiveSlots(p) == {i \in 0..(Len(p.slots) - 1) : p.slots[i + 1].used}

\* C1: AddEntity on an already registered (entity, component) pair allocates
\* no slot, leaves the index table and the pools as they were, does not run
\* InitEntity, and returns the record the entity already holds.
C1_AddEntityIdempotent ==
    \A e \in Entities, c \in SpecComps, loc \in AllocationLocation :
        IsRegisteredForComponent(table, e, c)
        => LET call == AddEntity(Cur, e, c, loc)
           IN /\ call.st.pools = pools
              /\ call.st.table = table
              /\ call.st.hooks = <<>>
              /\ call.ret = table[e][c]

\* Every CleanupEntity invocation for (e, c) in the log found the entity
\* registered, its slot occupied and its record readable; there is one.
CleanupRanOnceWhileRegistered(log, e, c) ==
    /\ Cardinality(HookCalls(log, "CleanupEntity", e, c)) = 1
    /\ \A i \in HookCalls(log, "CleanupEntity", e, c) :
           /\ log[i].registered
           /\ log[i].slotLive
           /\ log[i].readable

\* C2: each removal runs CleanupEntity exactly once for the removed pair, and
\* while the hook runs the entity is still registered, its slot is still
\* occupied and GetComponentData(entity) still returns its record.
C2_CleanupBeforeFree ==
    \A e \in Entities, c \in SpecComps :
        IsRegisteredForComponent(table, e, c)
        => /\ CleanupRanOnceWhileRegistered(RemoveEntity(Cur, e, c).hooks, e, c)
           /\ CleanupRanOnceWhileRegistered(
                  RemoveEntityIter(Cur, c, table[e][c]).st.hooks, e, c)

C4_NullIffUnregistered ==
    \A e \in Entities, c \in SpecComps :
        (GetComponentData(Cur, e, c) = nullptr)
        <=> ~IsRegisteredForComponent(table, e, c)

\* What C5 asks of the state S a removal of (e, c) leaves.
Unregistered(S, e, c) ==
    /\ S.table[e][c] = kUnusedComponentIndex
    /\ ~IsRegisteredForComponent(S.table, e, c)
    /\ GetComponentData(S, e, c) = nullptr
    /\ Cardinality(LiveSlots(S.pools[c])) = Cardinality(LiveSlots(pools[c])) - 1

\* C5: after either RemoveEntity on a registered pair, the entity's index is
\* the sentinel, it is not registered, GetComponentData returns null for it
\* and the pool holds exactly one occupied slot fewer.
C5_RemoveUnregisters ==
    \A e \in Entities, c \in SpecComps :
        IsRegisteredForComponent(table, e, c)
        => /\ Unregistered(RemoveEntity(Cur, e, c), e, c)
           /\ Unregistered(RemoveEntityIter(Cur, c, table[e][c]).st, e, c)

\* An enabled physics entity removed while another one stays registered.
C5_Witness ==
    \E e \in Entities :
        /\ IsRegisteredForComponent(table, e, Physics)
        /\ RecordOf(pools, table, e, Physics).data.enabled
        /\ Size(pools[Physics]) >= 2
        /\ Unregistered(RemoveEntity(Cur, e, Physics), e, Physics)
        /\ Size(RemoveEntityIter(Cur, Physics, table[e][Physics]).st.pools[Physics]) >= 1

\* C6: a pair that AddEntity takes from unregistered to registered, the one
\* it was called for and any its InitEntity registers, has had InitEntity run
\* for it exactly once and holds a record with default data, also in a
\* reused slot; the pair AddEntity was called for is registered afterwards.
C6_FreshRecord ==
    \A e \in Entities, c \in SpecComps, loc \in AllocationLocation :
        ~IsRegisteredForComponent(table, e, c)
        => LET call == AddEntity(Cur, e, c, loc)
           IN /\ IsRegisteredForComponent(call.st.table, e, c)
              /\ call.ret = call.st.table[e][c]
              /\ \A c2 \in Comps :
                     (/\ ~IsRegisteredForComponent(table, e, c2)
                      /\ IsRegisteredForComponent(call.st.table, e, c2))
                     => /\ Cardinality(HookCalls(call.st.hooks, "InitEntity", e, c2)) = 1
                        /\ IsLive(call.st.pools[c2], call.st.table[e][c2])
                        /\ RecordOf(call.st.pools, call.st.table, e, c2)
                             = [entity |-> e, data |-> DefaultData(c2)]

\* AddEntity for a physics entity that takes freed slots in both pools, the
\* transform one through InitEntity.
C6_Witness ==
    \E e \in Entities :
        /\ ~IsRegisteredForComponent(table, e, Physics)
        /\ ~IsRegisteredForComponent(table, e, Transform)
        /\ pools[Physics].free # <<>>
        /\ pools[Transform].free # <<>>
        /\ LET call == AddEntity(Cur, e, Physics, kAddToBack)
           IN /\ call.ret = Head(pools[Physics].free)
              /\ call.st.table[e][Transform] = Head(pools[Transform].free)
              /\ Len(call.st.hooks) = 2

C8_ClearLeavesEntities ==
    \A c \in SpecComps : ClearComponentData(Cur, c).table = table

\* C9: size() of the pool equals the number of allocations minus the number
\* of frees.
C9_SizeIsAllocsMinusFrees == Size(vp) = nalloc - nfree

C9_Witness ==
    /\ nalloc = MaxAllocs
    /\ nfree >= 2
    /\ Size(vp) >= 1
    /\ Len(vp.slots) < nalloc

\* C10: from its allocation until its own free, get() through a handle
\* returns the payload written at that allocation.
C10_HandlesStable ==
    \A h \in DOMAIN written :
        /\ GetElementData(vp, h) # nullptr
        /\ vp.slots[h + 1].data = written[h]

C10_Witness ==
    /\ Cardinality(DOMAIN written) >= 2
    /\ nfree >= 1
    /\ Len(vp.slots) < nalloc
    /\ \E h \in DOMAIN written : h = Len(vp.slots) - 1 /\ vp.order[1] = h

\* The elements of a sequence are pairwise different.
NoRepeat(seq) == \A i, j \in 1..Len(seq) : seq[i] = seq[j] => i = j

\* C11: iteration visits every occupied slot exactly once; an allocation at
\* the back is visited after all elements live at that time and one at the
\* front before them, whatever slot index it takes; a free removes its
\* element from the iteration and leaves the others in their order.
C11_IterationFollowsPlacement ==
    /\ NoRepeat(Iterate(vp))
    /\ {Iterate(vp)[k] : k \in 1..Len(Iterate(vp))} = LiveSlots(vp)
    /\ \A loc \in AllocationLocation :
           LET new == GetNewElement(vp, loc, 0)
           IN Iterate(new.pool) = IF loc = kAddToFront
                                  THEN <<new.index>> \o Iterate(vp)
                                  ELSE Append(Iterate(vp), new.index)
    /\ \A h \in LiveSlots(vp) :
           Iterate(FreeElement(vp, h)) = Without(Iterate(vp), h)

\* A, B, C allocated at the back (slots 0, 1, 2), B freed, D allocated at
\* the front in B's slot: the iteration is D, A, C.
C11_Witness ==
    /\ nalloc = 4
    /\ nfree = 1
    /\ Len(vp.slots) = 3
    /\ Iterate(vp) = <<1, 0, 2>>

\* The entities of component c in iteration order.
EntitiesInOrder(P, c) ==
    [k \in 1..Len(Iterate(P[c])) |-> P[c].slots[Iterate(P[c])[k] + 1].data.entity]

\* C12: a traversal that removes the current element at any subset of its
\* steps (any set R of the entities registered with the component) and continues from the returned iterator visits every element live
\* at the start exactly once, in order, and ends with exactly the chosen
\* elements removed; the iterator RemoveEntity(iter) returns is the next
\* live element in iteration order, or end.
C12_TraversalWithRemoval ==
    \A c \in SpecComps :
        /\ \A R \in SUBSET {e \in Entities : IsRegisteredForComponent(table, e, c)} :
               \A run \in {TraverseRemoving(Cur, c, Begin(pools[c]), R)} :
                  /\ run.visited = EntitiesInOrder(pools, c)
                  /\ NoRepeat(run.visited)
                  /\ \A e \in Entities :
                         IsRegisteredForComponent(run.st.table, e, c)
                         <=> (IsRegisteredForComponent(table, e, c) /\ e \notin R)
                  /\ EntitiesInOrder(run.st.pools, c)
                       = SelectSeq(EntitiesInOrder(pools, c), LAMBDA e : e \notin R)
        /\ \A k \in 1..Len(pools[c].order) :
               \A call \in {RemoveEntityIter(Cur, c, pools[c].order[k])} :
                  /\ call.ret = IF k < Len(pools[c].order)
                                THEN pools[c].order[k + 1] ELSE EndIter
                  /\ call.ret # EndIter => IsLive(call.st.pools[c], call.ret)

\* A traversal of two physics entities that removes the first and keeps
\* the second, which it reaches through the returned iterator.
C12_Witness ==
    /\ Len(pools[Physics].order) >= 2
    /\ LET first == EntitiesInOrder(pools, Physics)[1]
           run == TraverseRemoving(Cur, Physics, Begin(pools[Physics]), {first})
       IN /\ Len(run.visited) >= 2
          /\ ~IsRegisteredForComponent(run.st.table, first, Physics)
          /\ Size(run.st.pools[Physics]) = Size(pools[Physics]) - 1
          /\ RemoveEntityIter(Cur, Physics, Begin(pools[Physics])).ret
               = pools[Physics].order[2]

\* C13: free(handle) on a handle whose slot is already free changes
\* nothing: size(), the iteration order, the free list and the payload of
\* every live element are what they were.
C13_DoubleFreeIsNoOp ==
    \A h \in 0..(Len(vp.slots) - 1) :
        ~IsLive(vp, h)
        => LET after == FreeElement(vp, h)
           IN /\ Size(after) = Size(vp)
              /\ Iterate(after) = Iterate(vp)
              /\ after.free = vp.free
              /\ \A g \in DOMAIN written :
                     /\ GetElementData(after, g) # nullptr
                     /\ after.slots[g + 1].data = written[g]

\* A second free of a slot that lies between live elements, with another
\* freed slot on the free list.
C13_Witness ==
    /\ Len(vp.free) >= 2
    /\ Size(vp) >= 2
    /\ \E h \in 0..(Len(vp.slots) - 1) :
           /\ ~IsLive(vp, h)
           /\ IsLive(vp, h + 1)
           /\ FreeElement(vp, h) = vp

\* C14: RemoveEntity(entity) for an entity that is not registered with the
\* component returns with the pools (size, iteration order, every record),
\* every index table and the physics world as they were.
C14_DoubleRemovalHarmless ==
    \A e \in Entities, c \in SpecComps :
        ~IsRegisteredForComponent(table, e, c)
        => LET S2 == RemoveEntity(Cur, e, c)
           IN /\ ~S2.undefined
              /\ S2.pools = pools
              /\ S2.table = table
              /\ S2.world = world

\* The orders in which the components entity e is registered with can be
\* visited, over every assignment of component ids.
RemovalOrders(e) ==
    {SelectSeq(ids, LAMBDA c : IsRegisteredForComponent(table, e, c)) :
        ids \in ComponentIdOrders}

\* C15: destroying an entity runs RemoveEntity, and so CleanupEntity, exactly
\* once on every component the entity is registered with and on no other,
\* each while the entity still exists and is registered there, whatever the
\* order of the component ids; afterwards the entity does not exist, is
\* registered nowhere, and no pool holds a record that refers to it.
C15_DestroyUnregistersEverywhere ==
    \A e \in entities :
        \A ids \in RemovalOrders(e) : \A S2 \in {DestroyEntity(Cur, e, ids)} :
           /\ ~S2.undefined
           /\ e \notin S2.entities
           /\ \A c \in Comps :
                  /\ Cardinality(HookCalls(S2.hooks, "CleanupEntity", e, c))
                       = IF IsRegisteredForComponent(table, e, c) THEN 1 ELSE 0
                  /\ \A i \in HookCalls(S2.hooks, "CleanupEntity", e, c) :
                         /\ S2.hooks[i].entityLive
                         /\ S2.hooks[i].registered
                         /\ S2.hooks[i].slotLive
                  /\ ~IsRegisteredForComponent(S2.table, e, c)
                  /\ Size(S2.pools[c])
                       = Size(pools[c]) - IF IsRegisteredForComponent(table, e, c)
                                          THEN 1 ELSE 0
                  /\ \A i \in LiveSlots(S2.pools[c]) :
                         S2.pools[c].slots[i + 1].data.entity # e
           /\ Len(S2.hooks)
                = Cardinality({c \in Comps : IsRegisteredForComponent(table, e, c)})

\* The destruction of an entity with enabled physics, whose transform was
\* registered by PhysicsComponent::InitEntity, while another entity stays.
C15_Witness ==
    \E e \in entities :
        /\ IsRegisteredForComponent(table, e, Physics)
        /\ IsRegisteredForComponent(table, e, Transform)
        /\ RecordOf(pools, table, e, Physics).data.enabled
        /\ Size(pools[Transform]) >= 2
        /\ LET S2 == DestroyEntity(Cur, e, ComponentIds)
           IN /\ Len(S2.hooks) = 2
              /\ e \notin S2.entities
              /\ Size(S2.pools[Transform]) >= 1
              /\ Size(S2.pools[Physics]) = Size(pools[Physics]) - 1

\* C16: a per-frame pass calls UpdateAllEntities exactly once on every
\* registered component, in registration order, whatever entities exist
\* and whatever they are registered with; the last pass made did so, with
\* the registration order that still holds.
C16_UpdateInRegistrationOrder ==
    /\ NoRepeat(components)
    /\ UpdateComponents(Cur).updates = components
    /\ updates # <<>> => updates = components

\* A pass over the components, registered in an order that is not the
\* order of their ids, made after an entity with a render mesh was destroyed
\* and while an entity is registered with the physics component.
C16_Witness ==
    /\ Len(components) = Cardinality(Comps)
    /\ components # ComponentIds
    /\ components[1] # ComponentIds[1]
    /\ updates = components
    /\ pools[RenderMesh].free # <<>>
    /\ \E e \in entities : IsRegisteredForComponent(table, e, Physics)

\* The states left by the calls that register entity e with component c:
\* AddEntity at either end of the pool, and AddFromRawData with any raw
\* data, in any build and with the assets found or not.
RegisteringCalls(e, c) ==
    {AddEntity(Cur, e, c, loc).st : loc \in AllocationLocation}
      \cup (IF c \in DataComps
           THEN {AddFromRawData(Cur, e, c, def, env) :
                    def \in Defs(c), env \in Envs(c)}
           ELSE {})

\* C17: a call of AddEntity or AddFromRawData that registers an entity with
\* PhysicsComponent or RenderMeshComponent and returns leaves the entity
\* registered with TransformComponent, on a live slot; transform data the
\* entity had before the call is the same record at the same slot index.
C17_TransformDependencyKept ==
    \A e \in entities, c \in Registered(components) \cap {Physics, RenderMesh} :
        ~IsRegisteredForComponent(table, e, c) =>
            \A S2 \in RegisteringCalls(e, c) :
                Returned(S2) =>
                    /\ IsRegisteredForComponent(S2.table, e, c)
                    /\ IsRegisteredForComponent(S2.table, e, Transform)
                    /\ IsLive(S2.pools[Transform], S2.table[e][Transform])
                    /\ S2.pools[Transform].slots[S2.table[e][Transform] + 1].data.entity = e
                    /\ IsRegisteredForComponent(table, e, Transform) =>
                           /\ S2.table[e][Transform] = table[e][Transform]
                           /\ RecordOf(S2.pools, S2.table, e, Transform)
                                = RecordOf(pools, table, e, Transform)

\* An entity whose transform was written is then registered from raw data,
\* by a call that returns.
C17_Witness ==
    \E e \in entities, c \in Registered(components) \cap {Physics, RenderMesh} :
        /\ ~IsRegisteredForComponent(table, e, c)
        /\ IsRegisteredForComponent(table, e, Transform)
        /\ RecordOf(pools, table, e, Transform).data.position = "moved"
        /\ \E def \in Defs(c), env \in Envs(c) :
               LET S2 == AddFromRawData(Cur, e, c, def, env)
               IN /\ Returned(S2)
                  /\ IsRegisteredForComponent(S2.table, e, c)
                  /\ Len(S2.hooks) = 1
                  /\ RecordOf(S2.pools, S2.table, e, Transform).data.position = "moved"

\* C18: during AddEntity, InitEntity runs exactly once for every component
\* the entity goes from unregistered to registered with, the component of
\* the call and the ones its hook registers the entity with, and for no
\* other; when the hook runs the slot is allocated and holds the entity,
\* and the entity's index-table entry is set, so the entity reports as
\* registered; the registration stands when AddEntity returns.
C18_InitEntityOncePerRegistration ==
    \A e \in entities, c \in Comps, loc \in AllocationLocation :
        \A call \in {AddEntity(Cur, e, c, loc)} :
        LET log == call.st.hooks
        IN /\ IsRegisteredForComponent(call.st.table, e, c)
           /\ \A i \in 1..Len(log) : log[i].hook = "InitEntity" /\ log[i].e = e
           /\ \A c2 \in Comps :
                  /\ Cardinality(HookCalls(log, "InitEntity", e, c2))
                       = IF /\ ~IsRegisteredForComponent(table, e, c2)
                            /\ IsRegisteredForComponent(call.st.table, e, c2)
                         THEN 1 ELSE 0
                  /\ \A i \in HookCalls(log, "InitEntity", e, c2) :
                         /\ log[i].registered
                         /\ log[i].slotLive
                         /\ call.st.table[e][c2] # kUnusedComponentIndex
           /\ ~IsRegisteredForComponent(table, e, c) =>
                  /\ Len(log) >= 1
                  /\ log[1].c = c
                  /\ call.ret = call.st.table[e][c]

\* An entity is registered with the physics component at the front of a
\* pool that holds another entity and a freed slot, and gets its transform
\* from the hook.
C18_Witness ==
    \E e \in entities :
        /\ ~IsRegisteredForComponent(table, e, Physics)
        /\ ~IsRegisteredForComponent(table, e, Transform)
        /\ Size(pools[Physics]) >= 1
        /\ pools[Physics].free # <<>>
        /\ LET call == AddEntity(Cur, e, Physics, kAddToFront)
           IN /\ Len(call.st.hooks) = 2
              /\ call.st.hooks[1].c = Physics
              /\ call.st.hooks[1].registered
              /\ call.st.hooks[2].c = Transform
              /\ Begin(call.st.pools[Physics]) = call.ret

\* C19: AddFromRawData with raw data that the component treats as invalid,
\* on an entity not registered with the component, leaves the entity
\* unregistered with it when the call returns, and leaves the index-table
\* entries and the records of every other entity as they were.
C19_InvalidBlobLeavesUnregistered ==
    \A e \in entities, c \in Registered(components) \cap DataComps :
        \A def \in Defs(c), env \in Envs(c) :
            (TreatedAsInvalid(c, def) /\ ~IsRegisteredForComponent(table, e, c)) =>
                LET S2 == AddFromRawData(Cur, e, c, def, env)
                IN Returned(S2) =>
                       /\ ~IsRegisteredForComponent(S2.table, e, c)
                       /\ \A e2 \in entities \ {e} :
                              /\ S2.table[e2] = table[e2]
                              /\ \A c2 \in Comps :
                                     IsRegisteredForComponent(table, e2, c2) =>
                                         RecordOf(S2.pools, S2.table, e2, c2)
                                           = RecordOf(pools, table, e2, c2)

\* C20: ExportRawData of a registered component on an entity that is not
\* registered with it returns the null sentinel, for PhysicsComponent,
\* RenderMeshComponent, GraphComponent and a component with the Component
\* default (ExportRawData is const: it has a result and no effect).
C20_ExportUnregisteredIsNull ==
    \A e \in entities, c \in Registered(components) :
        ~IsRegisteredForComponent(table, e, c) =>
            ExportRawData(Cur, e, c) = NullRawData

\* An entity that was loaded with a graph, a physics shape or a render
\* mesh and then removed from that component is exported: it has a
\* transform, and the component's pool holds its freed slot.
C20_Witness ==
    \E e \in entities, c \in Registered(components) \cap DataComps :
        /\ ~IsRegisteredForComponent(table, e, c)
        /\ IsRegisteredForComponent(table, e, Transform)
        /\ pools[c].free # <<>>
        /\ ExportRawData(Cur, e, c) = NullRawData
        /\ \E def \in Defs(c), env \in Envs(c) :
               LET S2 == AddFromRawData(Cur, e, c, def, env)
               IN Returned(S2) /\ ExportRawData(S2, e, c) # NullRawData

\* C21: RenderMeshComponent::ExportRawData returns the null sentinel for
\* every entity registered with the component whose record has an empty
\* mesh file name or an empty shader file name.
C21_NoFilenameNoExport ==
    \A e \in entities :
        (/\ IsRegisteredForComponent(table, e, RenderMesh)
         /\ \/ RecordOf(pools, table, e, RenderMesh).data.mesh_filename = ""
            \/ RecordOf(pools, table, e, RenderMesh).data.shader_filename = "")
        => ExportRawData(Cur, e, RenderMesh) = NullRawData

\* An entity registered with the render mesh component through AddEntity,
\* whose record is readable and has the file names of RenderMeshData().
C21_Witness ==
    \E e \in entities :
        /\ IsRegisteredForComponent(table, e, RenderMesh)
        /\ GetComponentData(Cur, e, RenderMesh) # nullptr
        /\ RecordOf(pools, table, e, RenderMesh).data = DefaultData(RenderMesh)
        /\ ExportRawData(Cur, e, RenderMesh) = NullRawData

\* C22: GraphComponent::ExportRawData returns the null sentinel for every
\* entity whose graph record holds no graphs: one just registered by
\* GetCreateBroadcaster or AddEntity, and any registered one with an empty
\* graph list.
C22_NoGraphsNoExport ==
    /\ \A e \in entities :
           (/\ IsRegisteredForComponent(table, e, Graph)
            /\ RecordOf(pools, table, e, Graph).data.graphs = <<>>)
           => ExportRawData(Cur, e, Graph) = NullRawData
    /\ \A e \in entities :
           (Graph \in Registered(components) /\ ~IsRegisteredForComponent(table, e, Graph))
           => /\ ExportRawData(GetCreateBroadcaster(Cur, e), e, Graph) = NullRawData
              /\ ExportRawData(AddEntity(Cur, e, Graph, kAddToBack).st, e, Graph)
                   = NullRawData

\* C23: for every entity e1 registered with RenderMeshComponent whose mesh
\* and shader file names are not empty, ExportRawData(e1) is raw data, and
\* AddFromRawData of it on a newly created entity e2, when it returns,
\* gives e2 the mesh file name, shader file name, ignore_culling and
\* pass_mask of e1, whatever the pass_mask of e1 is.
C23_RenderMeshRoundTrip ==
    \A e1 \in entities, e2 \in Entities \ entities :
        (/\ IsRegisteredForComponent(table, e1, RenderMesh)
         /\ RecordOf(pools, table, e1, RenderMesh).data.mesh_filename # ""
         /\ RecordOf(pools, table, e1, RenderMesh).data.shader_filename # "")
        => \A raw_data \in {ExportRawData(Cur, e1, RenderMesh)} :
               /\ raw_data # NullRawData
               /\ \A env \in Envs(RenderMesh) :
                      \A S2 \in {AddFromRawData(CreateEntity(Cur, e2), e2, RenderMesh,
                                                raw_data, env)} :
                          Returned(S2) =>
                              /\ IsRegisteredForComponent(S2.table, e2, RenderMesh)
                              /\ RecordOf(S2.pools, S2.table, e2, RenderMesh).data
                                   = RecordOf(pools, table, e1, RenderMesh).data

\* The bodies of a physics record that ExportRawData writes, in order, and
\* what the round trip compares of a body.
ExportableBodies(rec) ==
    SelectSeq(SubSeq(rec.rigid_bodies, 1, rec.body_count),
              LAMBDA body : body.should_export)

BodyKind(body) ==
    [shape |-> body.shape, collision_type |-> body.collision_type,
     collides_with |-> body.collides_with]

\* What the physics round trip promises of the record rec2 imported from
\* the export of the record rec1.
PhysicsRoundTripHolds(rec1, rec2) ==
    LET exported == ExportableBodies(rec1)
    IN /\ rec2.body_count = Len(exported)
       /\ \A k \in 1..Len(exported) :
              BodyKind(rec2.rigid_bodies[k]) = BodyKind(exported[k])
       /\ rec2.rigid_bodies[1].kinematic = rec1.rigid_bodies[1].kinematic

\* The states in which entity e holds the physics record that
\* AddFromRawData of physics_def gives it, followed by GenerateRaycastShape
\* when raycast is not "none" (result_exportable is true for "exportable").
PhysicsEntityStates(S, e, physics_def, raycast) ==
    LET S1 == AddFromRawData(S, e, Physics, physics_def, [ndebug |-> FALSE])
    IN IF raycast # "none" /\ Returned(S1)
       THEN {GenerateRaycastShape(S1, e, raycast = "exportable")}
       ELSE {S1}

\* C24: for every physics entity e1 with at least one body that has
\* should_export set (its bodies imported from any PhysicsDef, with or
\* without a generated raycast shape), ExportRawData(e1) is raw data, and
\* AddFromRawData of it on a newly created entity e2 gives e2 as many
\* bodies as e1 has exportable ones, in the same order, each with the same
\* shape kind, collision_type and collides_with, and a body 0 that is
\* kinematic exactly when body 0 of e1 is.
C24_PhysicsRoundTrip ==
    \A e1 \in entities, e2 \in Entities \ entities :
        (/\ Physics \in Registered(components)
         /\ ~IsRegisteredForComponent(table, e1, Physics))
        => \A physics_def \in AllPhysicsDefs, raycast \in {"none", "exportable", "hidden"} :
               \A S1 \in PhysicsEntityStates(Cur, e1, physics_def, raycast) :
                   (/\ Returned(S1)
                    /\ Len(ExportableBodies(RecordOf(S1.pools, S1.table, e1, Physics).data)) > 0)
                   => \A raw_data \in {ExportRawData(S1, e1, Physics)} :
                          /\ raw_data # NullRawData
                          /\ \A S2 \in {AddFromRawData(CreateEntity(S1, e2), e2, Physics,
                                                        raw_data, [ndebug |-> FALSE])} :
                                 /\ Returned(S2)
                                 /\ IsRegisteredForComponent(S2.table, e2, Physics)
                                 /\ PhysicsRoundTripHolds(
                                        RecordOf(S1.pools, S1.table, e1, Physics).data,
                                        RecordOf(S2.pools, S2.table, e2, Physics).data)

\* The graph file names of entity e in state S.
GraphsOf(S, e) == RecordOf(S.pools, S.table, e, Graph).data.graphs

\* The file names that a GraphDef lists.
NamesOf(graph_def) ==
    IF graph_def.filename_list.present THEN graph_def.filename_list.names ELSE <<>>

\* The raw data is a GraphDef that lists the file names graphs.
IsGraphDefOf(raw_data, graphs) ==
    /\ raw_data # NullRawData
    /\ NamesOf(raw_data) = graphs

\* C25: for every entity e1 registered with GraphComponent,
\* ExportRawData(e1) is raw data and AddFromRawData of it on a newly
\* created entity e2 gives e2 the graph file names of e1 in the same
\* order; AddFromRawData of any GraphDef on e1 again leaves e1 with
\* exactly the def's file names; and the copy e2 is itself a graph entity
\* that exports the same list, also once e1 has been removed from the
\* component.
C25_GraphRoundTripAndReimport ==
    \A e1 \in entities :
        IsRegisteredForComponent(table, e1, Graph)
        => /\ \A graph_def \in GraphDefs :
                  \A S1 \in {AddFromRawData(Cur, e1, Graph, graph_def, [ndebug |-> FALSE])} :
                      /\ Returned(S1)
                      /\ GraphsOf(S1, e1) = NamesOf(graph_def)
           /\ \A raw_data \in {ExportRawData(Cur, e1, Graph)} :
                  /\ IsGraphDefOf(raw_data, GraphsOf(Cur, e1))
                  /\ \A e2 \in Entities \ entities :
                         \A S2 \in {AddFromRawData(CreateEntity(Cur, e2), e2, Graph,
                                                   raw_data, [ndebug |-> FALSE])} :
                             /\ Returned(S2)
                             /\ IsRegisteredForComponent(S2.table, e2, Graph)
                             /\ GraphsOf(S2, e2) = GraphsOf(Cur, e1)
                             /\ IsGraphDefOf(ExportRawData(S2, e2, Graph), GraphsOf(Cur, e1))
                             /\ IsGraphDefOf(ExportRawData(RemoveEntity(S2, e1, Graph), e2, Graph),
                                             GraphsOf(Cur, e1))

\* The live slots of component c that hold entity e.
SlotsHolding(S, e, c) ==
    {i \in LiveSlots(S.pools[c]) : S.pools[c].slots[i + 1].data.entity = e}

\* C26: with two components each of whose InitEntity registers the entity
\* with the other, AddEntity of an entity on one it is not registered with
\* returns after at most two InitEntity calls, with the entity registered
\* with both and held by exactly one live slot of each pool; InitEntity ran
\* exactly once for each of the two the entity was not registered with
\* before (for both when it was registered with neither) and not at all
\* for one it was registered with, and whenever it ran the entity was
\* already registered with its component.
C26_MutualDependencyTerminates ==
    \A e \in entities, c \in CycleComps, loc \in AllocationLocation :
        (/\ CycleComps \subseteq Registered(components)
         /\ ~IsRegisteredForComponent(table, e, c))
        => \A call \in {AddEntity(Cur, e, c, loc)} :
               LET log == call.st.hooks
               IN /\ Len(log) <= 2
                  /\ \A c2 \in CycleComps :
                         /\ IsRegisteredForComponent(call.st.table, e, c2)
                         /\ SlotsHolding(call.st, e, c2) = {call.st.table[e][c2]}
                         /\ Cardinality(HookCalls(log, "InitEntity", e, c2))
                              = IF IsRegisteredForComponent(table, e, c2) THEN 0 ELSE 1
                         /\ \A i \in HookCalls(log, "InitEntity", e, c2) :
                                log[i].registered /\ log[i].slotLive

\* An entity registered with neither of the two is registered with one,
\* and both InitEntity hooks run, the one of the call first.
C26_Witness ==
    \E e \in entities :
        /\ CycleComps \subseteq Registered(components)
        /\ \A c \in CycleComps : ~IsRegisteredForComponent(table, e, c)
        /\ LET call == AddEntity(Cur, e, CycleX, kAddToBack)
           IN /\ Len(call.st.hooks) = 2
              /\ call.st.hooks[1].c = CycleX
              /\ call.st.hooks[2].c = CycleY
              /\ \A c \in CycleComps : IsRegisteredForComponent(call.st.table, e, c)

\* The registered entities that the CleanupEntity of entity e removes from
\* the cascading component.
DependentsOf(e) ==
    IF IsRegisteredForComponent(table, e, Cascade)
    THEN {d \in RecordOf(pools, table, e, Cascade).data.dependents :
             IsRegisteredForComponent(table, d, Cascade)}
    ELSE {}

\* The entities whose removal follows from the removal of the entities in
\* F, by at most n further steps of the cascade.
RECURSIVE CascadeFrom(_, _)
CascadeFrom(F, n) ==
    IF n = 0 THEN F
    ELSE CascadeFrom(F \cup UNION {DependentsOf(e) : e \in F}, n - 1)

\* No entity's removal leads, through the cascade, to its own removal.
CascadeHasNoCycle ==
    \A e \in Entities : e \notin CascadeFrom(DependentsOf(e), NumEntities)

\* ClearComponentData on the cascading component returns with the pool
\* empty, every entity unregistered, and CleanupEntity called exactly once
\* for every entity that was registered and for no other.
ClearWithCascadeRemovesAll ==
    \A S2 \in {ClearComponentData(Cur, Cascade)} :
        /\ Returned(S2)
        /\ Size(S2.pools[Cascade]) = 0
        /\ S2.pools[Cascade].order = <<>>
        /\ \A e \in Entities :
               /\ Cardinality(HookCalls(S2.hooks, "CleanupEntity", e, Cascade))
                    = IF IsRegisteredForComponent(table, e, Cascade) THEN 1 ELSE 0
               /\ ~IsRegisteredForComponent(S2.table, e, Cascade)

\* C27 as stated: with a CleanupEntity hook that removes other entities
\* from the same component and adds none, ClearComponentData returns with
\* an empty pool and exactly one CleanupEntity call per removed entity,
\* whatever entities the hooks remove.
C27_ClearWithCascade ==
    Cascade \in Registered(components) => ClearWithCascadeRemovesAll

\* C27, amended: the same, provided the cascade has no cycle (no hook
\* removes an entity whose own CleanupEntity has not returned).
C27_ClearWithAcyclicCascade ==
    (Cascade \in Registered(components) /\ CascadeHasNoCycle)
    => ClearWithCascadeRemovesAll

\* A clear of three entities or of two in which the CleanupEntity of the
\* first entity in iteration order removes an entity the loop has not
\* reached, whose CleanupEntity so runs inside the first one's.
C27_Witness ==
    /\ Cascade \in Registered(components)
    /\ CascadeHasNoCycle
    /\ Len(pools[Cascade].order) >= 2
    /\ DependentsOf(EntitiesInOrder(pools, Cascade)[1])
         = {EntitiesInOrder(pools, Cascade)[2]}
    /\ LET S2 == ClearComponentData(Cur, Cascade)
       IN /\ Returned(S2)
          /\ Len(S2.hooks) = Len(pools[Cascade].order)
          /\ S2.hooks[2].e = EntitiesInOrder(pools, Cascade)[2]
          /\ S2.hooks[2].registered

\* The states left by the calls on the pair (e, c) that return: AddEntity
\* at either end of the pool, AddFromRawData with any raw data, and
\* RemoveEntity when the entity is registered with the component.
CallsOnPair(e, c) ==
    {S2 \in RegisteringCalls(e, c) : Returned(S2)}
      \cup (IF IsRegisteredForComponent(table, e, c)
           THEN {RemoveEntity(Cur, e, c)} ELSE {})

\* What a call on the pair (e, c) that led to S2 left alone: the index
\* table of every other entity, the slot and the record that every other
\* entity has in c, and the indices of e for the components other than c
\* and the ones c's InitEntity registers.
FrameKept(S2, e, c) ==
    /\ \A e2 \in Entities \ {e} :
           /\ S2.table[e2] = table[e2]
           /\ IsRegisteredForComponent(table, e2, c)
              => /\ IsLive(S2.pools[c], S2.table[e2][c])
                 /\ RecordOf(S2.pools, S2.table, e2, c) = RecordOf(pools, table, e2, c)
    /\ \A c2 \in AllComps \ ({c} \cup Requires(c)) :
           S2.table[e][c2] = table[e][c2]

Before(seq, x) == {seq[k] : k \in 1..(PositionOf(seq, x) - 1)}

\* C29: a traversal of the pool whose body, at any one element, frees any
\* other live element visits no slot twice; it visits the freed element
\* exactly when the traversal had reached it before the free, and every
\* other live element exactly once, in iteration order.
C29_TraversalWithFreeOfOther ==
    \A at \in LiveSlots(vp) :
        \A target \in LiveSlots(vp) \ {at} :
            \A visited \in {TraverseFreeing(vp, Begin(vp), at, target)} :
                /\ NoRepeat(visited)
                /\ visited = IF target \in Before(Iterate(vp), at)
                             THEN Iterate(vp)
                             ELSE Without(Iterate(vp), target)

\* Three live elements or more; the body frees, at the first one, the
\* element that comes next, and, at the last one, the first.
C29_Witness ==
    /\ Len(Iterate(vp)) >= 3
    /\ Len(TraverseFreeing(vp, Begin(vp), Iterate(vp)[1], Iterate(vp)[2]))
         = Len(Iterate(vp)) - 1
    /\ TraverseFreeing(vp, Begin(vp), Iterate(vp)[Len(Iterate(vp))], Iterate(vp)[1])
         = Iterate(vp)

\* C30: a traversal of the pool whose body, at any one element, allocates
\* an element visits no slot twice; it visits the elements live at the
\* start once each, in iteration order, and then the new element when it
\* was placed at the back, and does not visit the new element when it was
\* placed at the front.
C30_TraversalWithAllocation ==
    \A at \in LiveSlots(vp), loc \in AllocationLocation :
        \A visited \in {TraverseAllocating(vp, Begin(vp), at, loc)} :
            /\ NoRepeat(visited)
            /\ visited = IF loc = kAddToBack
                         THEN Append(Iterate(vp), GetNewElement(vp, loc, 0).index)
                         ELSE Iterate(vp)

\* The body allocates at the last of two or more elements, and the new
\* element takes a slot that was freed: at the back it is visited, at the
\* front it is not.
C30_Witness ==
    /\ Len(Iterate(vp)) >= 2
    /\ vp.free # <<>>
    /\ LET last == Iterate(vp)[Len(Iterate(vp))]
       IN /\ Len(TraverseAllocating(vp, Begin(vp), last, kAddToBack))
               = Len(Iterate(vp)) + 1
          /\ Len(TraverseAllocating(vp, Begin(vp), last, kAddToFront))
               = Len(Iterate(vp))

\* C31: handles carry no generation. A handle h kept from before the free
\* of its slot reads null while the slot is free; once the next allocation
\* reuses the index, get() through h is non-null and is the very address
\* get() returns through the new handle, so what is read through h is the
\* new occupant's payload.
C31_StaleHandleReadsNewOccupant ==
    \A h \in 0..(Len(vp.slots) - 1) :
        (vp.free # <<>> /\ h = Head(vp.free)) =>
            /\ GetElementData(vp, h) = nullptr
            /\ \A loc \in AllocationLocation, v \in Payloads :
                   \A new \in {GetNewElement(vp, loc, 0)} :
                       LET p2 == SetPayload(new.pool, new.index, v)
                       IN /\ new.index = h
                          /\ GetElementData(p2, h) # nullptr
                          /\ GetElementData(p2, h) = GetElementData(p2, new.index)
                          /\ p2.slots[GetElementData(p2, h) + 1].data = v

\* A slot has been freed and reused before, and another freed slot waits
\* for its reuse.
C31_Witness ==
    /\ vp.free # <<>>
    /\ Len(vp.slots) < nalloc
    /\ Size(vp) >= 1

\* C32: the pointer a registering AddEntity returns is the entity's live
\* record when AddEntity returns: non-null, the slot of a record that names
\* the entity, and what GetComponentData(entity) returns in that state.
C32_AddEntityReturnsLiveRecord ==
    \A e \in Entities, c \in SpecComps, loc \in AllocationLocation :
        ~IsRegisteredForComponent(table, e, c)
        => \A call \in {AddEntity(Cur, e, c, loc)} :
               /\ call.ret # nullptr
               /\ IsLive(call.st.pools[c], call.ret)
               /\ call.st.pools[c].slots[call.ret + 1].data.entity = e
               /\ call.ret = GetComponentData(call.st, e, c)

\* Every entity registered with PhysicsComponent or RenderMeshComponent in
\* the index table T is registered with TransformComponent.
DependenciesHeld(T) ==
    \A e \in Entities, c \in {Physics, RenderMesh} :
        IsRegisteredForComponent(T, e, c) => IsRegisteredForComponent(T, e, Transform)

PhysicsRecords(p) == {p.slots[i + 1].data : i \in LiveSlots(p)}

\* C34: a physics record's enabled flag agrees with world membership: all
\* of the body_count bodies of an enabled record are in the physics world,
\* and none of the bodies of a disabled one is.
C34_EnabledAgreesWithWorld ==
    \A r \in PhysicsRecords(pools[Physics]) :
        /\ r.data.enabled =>
               \A i \in 0..(r.data.body_count - 1) : <<r.entity, i>> \in world
        /\ ~r.data.enabled =>
               \A i \in 0..(r.data.body_count - 1) : <<r.entity, i>> \notin world

\* C35: every rigid body in the physics world is one of the body_count
\* bodies of a live physics record of its entity; none is left behind by
\* RemoveEntity, ClearComponentData or a repeated AddFromRawData.
C35_WorldBodiesAreOwned ==
    \A b \in world :
        \E r \in PhysicsRecords(pools[Physics]) :
            /\ r.entity = b[1]
            /\ b[2] < r.data.body_count

\* A definition of n shapes, no two alike, none colliding with the raycast
\* layer: the first n of the six (data_type, collision_type) combinations.
LongShapeList ==
    <<[data_type |-> "BulletSphereDef", collision_type |-> 1,
       collides_with |-> [present |-> FALSE, layers |-> {}]],
      [data_type |-> "BulletBoxDef", collision_type |-> 1,
       collides_with |-> [present |-> FALSE, layers |-> {}]],
      [data_type |-> "BulletNoShapeDef", collision_type |-> 1,
       collides_with |-> [present |-> FALSE, layers |-> {}]],
      [data_type |-> "BulletSphereDef", collision_type |-> BulletCollisionType_Raycast,
       collides_with |-> [present |-> FALSE, layers |-> {}]],
      [data_type |-> "BulletBoxDef", collision_type |-> BulletCollisionType_Raycast,
       collides_with |-> [present |-> FALSE, layers |-> {}]],
      [data_type |-> "BulletNoShapeDef", collision_type |-> BulletCollisionType_Raycast,
       collides_with |-> [present |-> FALSE, layers |-> {}]]>>

DefOfLength(n, kinematic) ==
    [shapes |-> SubSeq(LongShapeList, 1, n), kinematic |-> kinematic]

\* The PhysicsData of entity e in state S (e registered, its slot live).
PhysicsDataOf(S, e) == RecordOf(S.pools, S.table, e, Physics).data

\* C36: every physics record has between 0 and kMaxPhysicsBodies bodies;
\* AddFromRawData of a definition with shapes keeps the first
\* kMaxPhysicsBodies of them and no more, and GenerateRaycastShape adds at
\* most one body and nothing to a record of kMaxPhysicsBodies bodies.
C36_BodyCountWithinLimit ==
    /\ \A r \in PhysicsRecords(pools[Physics]) :
           /\ r.data.body_count \in 0..kMaxPhysicsBodies
           /\ Len(r.data.rigid_bodies) = r.data.body_count
    /\ \A e \in entities, n \in 1..(kMaxPhysicsBodies + 1), kinematic \in BOOLEAN :
           \A S1 \in {PhysicsAddFromRawData(Cur, e, DefOfLength(n, kinematic))} :
               Returned(S1) =>
                   /\ PhysicsDataOf(S1, e).body_count
                        = (IF n > kMaxPhysicsBodies THEN kMaxPhysicsBodies ELSE n)
                   /\ PhysicsDataOf(S1, e).rigid_bodies
                        = [index \in 1..PhysicsDataOf(S1, e).body_count |->
                              RigidBodyOfDef(DefOfLength(n, kinematic), index)]
                   /\ \A result_exportable \in BOOLEAN :
                          \A S2 \in {GenerateRaycastShape(S1, e, result_exportable)} :
                              Returned(S2) =>
                                  /\ PhysicsDataOf(S2, e).body_count \in
                                         {PhysicsDataOf(S1, e).body_count,
                                          PhysicsDataOf(S1, e).body_count + 1}
                                  /\ PhysicsDataOf(S2, e).body_count <= kMaxPhysicsBodies
                                  /\ PhysicsDataOf(S1, e).body_count = kMaxPhysicsBodies
                                         => S2 = S1

\* An entity holding bodies, for which a definition of more than
\* kMaxPhysicsBodies shapes leaves kMaxPhysicsBodies bodies and a definition
\* of one fewer leaves room for the raycast body.
C36_Witness ==
    \E e \in entities :
        /\ IsRegisteredForComponent(table, e, Physics)
        /\ PhysicsDataOf(Cur, e).body_count > 0
        /\ \A S1 \in {PhysicsAddFromRawData(Cur, e, DefOfLength(kMaxPhysicsBodies + 1, FALSE))} :
               /\ Returned(S1)
               /\ PhysicsDataOf(S1, e).body_count = kMaxPhysicsBodies
               /\ GenerateRaycastShape(S1, e, TRUE) = S1
        /\ \A S1 \in {PhysicsAddFromRawData(Cur, e, DefOfLength(kMaxPhysicsBodies - 1, FALSE))} :
               /\ Returned(S1)
               /\ PhysicsDataOf(GenerateRaycastShape(S1, e, TRUE), e).body_count
                    = kMaxPhysicsBodies

\* Every body of rec after its first is kinematic.
LaterBodiesKinematic(rec) ==
    \A index \in 2..rec.body_count : rec.rigid_bodies[index].kinematic

\* C37: only the first rigid body of an entity can be non-kinematic. Every
\* body after the first is kinematic in every reachable state and after
\* every AddFromRawData and GenerateRaycastShape; the first body is
\* kinematic after an AddFromRawData whose definition has shapes and the
\* kinematic flag, and when GenerateRaycastShape created it.
C37_OnlyFirstBodyNonKinematic ==
    /\ \A r \in PhysicsRecords(pools[Physics]) : LaterBodiesKinematic(r.data)
    /\ \A e \in entities, n \in 1..kMaxPhysicsBodies, kinematic \in BOOLEAN :
           \A S1 \in {PhysicsAddFromRawData(Cur, e, DefOfLength(n, kinematic))} :
               Returned(S1) =>
                   /\ LaterBodiesKinematic(PhysicsDataOf(S1, e))
                   /\ kinematic => PhysicsDataOf(S1, e).rigid_bodies[1].kinematic
    /\ \A e \in entities, result_exportable \in BOOLEAN :
           IsRegisteredForComponent(table, e, Physics) =>
               \A S1 \in {GenerateRaycastShape(Cur, e, result_exportable)} :
                   Returned(S1) =>
                       /\ LaterBodiesKinematic(PhysicsDataOf(S1, e))
                       /\ (PhysicsDataOf(Cur, e).body_count = 0
                           /\ PhysicsDataOf(S1, e).body_count = 1)
                          => PhysicsDataOf(S1, e).rigid_bodies[1].kinematic

\* A record whose first body is not kinematic and whose second is the
\* raycast body, and a record whose only body is the raycast body.
C37_Witness ==
    /\ \E r \in PhysicsRecords(pools[Physics]) :
           /\ r.data.body_count >= 2
           /\ ~r.data.rigid_bodies[1].kinematic
           /\ r.data.rigid_bodies[2].collision_type = BulletCollisionType_Raycast
    /\ \E e \in entities :
           /\ IsRegisteredForComponent(table, e, Physics)
           /\ \A S1 \in {RemoveEntity(Cur, e, Physics)} :
                  \A S2 \in {PhysicsAddFromRawData(S1, e, DefOfLength(0, FALSE))} :
                      \A S3 \in {GenerateRaycastShape(S2, e, TRUE)} :
                          /\ Returned(S3)
                          /\ PhysicsDataOf(S3, e).body_count = 1
                          /\ PhysicsDataOf(S3, e).rigid_bodies[1].kinematic

\* Some body of rec collides with the raycast layer.
IsRaycastable(rec) ==
    \E index \in 1..rec.body_count :
        BulletCollisionType_Raycast \in rec.rigid_bodies[index].collides_with

\* C38: GenerateRaycastShape is idempotent. On an entity one of whose bodies
\* collides with the raycast layer the call changes nothing; a call that
\* returns raises body_count by at most 1, and a further call after it
\* changes nothing, whatever result_exportable is.
C38_GenerateRaycastShapeIdempotent ==
    \A e \in entities, first \in BOOLEAN :
        IsRegisteredForComponent(table, e, Physics) =>
            \A S1 \in {GenerateRaycastShape(Cur, e, first)} :
                Returned(S1) =>
                    /\ IsRaycastable(PhysicsDataOf(Cur, e)) => S1 = Cur
                    /\ PhysicsDataOf(S1, e).body_count
                         \in {PhysicsDataOf(Cur, e).body_count,
                              PhysicsDataOf(Cur, e).body_count + 1}
                    /\ \A again \in BOOLEAN :
                           GenerateRaycastShape(S1, e, again) = S1

\* GenerateRaycastShape on an entity with a body and no raycast body adds
\* one, after which the entity has a body that collides with the raycast
\* layer.
C38_Witness ==
    \E e \in entities :
        /\ IsRegisteredForComponent(table, e, Physics)
        /\ PhysicsDataOf(Cur, e).body_count >= 1
        /\ ~IsRaycastable(PhysicsDataOf(Cur, e))
        /\ \A S1 \in {GenerateRaycastShape(Cur, e, TRUE)} :
               /\ Returned(S1)
               /\ PhysicsDataOf(S1, e).body_count
                    = PhysicsDataOf(Cur, e).body_count + 1
               /\ IsRaycastable(PhysicsDataOf(S1, e))

\* The entities UpdateAllEntities copies a position to: registered with
\* PhysicsComponent, enabled, with a body, the first of them not kinematic.
IsSimulated(e) ==
    /\ IsRegisteredForComponent(table, e, Physics)
    /\ PhysicsDataOf(Cur, e).enabled
    /\ PhysicsDataOf(Cur, e).body_count > 0
    /\ ~PhysicsDataOf(Cur, e).rigid_bodies[1].kinematic

\* C39: a PhysicsComponent::UpdateAllEntities that returns writes the
\* transform of an entity only if the entity is enabled, has a body and its
\* first body is not kinematic, and the body transforms of an entity only
\* if it is enabled and has a body, and then only of its kinematic bodies;
\* the entities, the index table, the world, the physics pool and all of
\* the transform pool but the positions written are as before.
C39_UpdateWritesOnlySimulated ==
    \A S2 \in {UpdateAllEntities(Cur, Physics)} :
        Returned(S2) =>
            /\ \A k \in 1..Len(S2.writes) :
                   LET w == S2.writes[k]
                   IN /\ IsRegisteredForComponent(table, w.e, Physics)
                      /\ PhysicsDataOf(Cur, w.e).enabled
                      /\ PhysicsDataOf(Cur, w.e).body_count > 0
                      /\ w.target = "transform" => IsSimulated(w.e)
                      /\ \A i \in w.bodies :
                             PhysicsDataOf(Cur, w.e).rigid_bodies[i + 1].kinematic
            /\ S2.entities = entities
            /\ S2.table = table
            /\ S2.world = world
            /\ S2.pools[Physics] = pools[Physics]
            /\ S2.pools[Transform].order = pools[Transform].order
            /\ S2.pools[Transform].free = pools[Transform].free
            /\ Len(S2.pools[Transform].slots) = Len(pools[Transform].slots)
            /\ \A i \in 1..Len(pools[Transform].slots) :
                   \/ S2.pools[Transform].slots[i] = pools[Transform].slots[i]
                   \/ /\ pools[Transform].slots[i].used
                      /\ IsSimulated(pools[Transform].slots[i].data.entity)
                      /\ S2.pools[Transform].slots[i]
                           = [pools[Transform].slots[i] EXCEPT
                                 !.data.data.position = "moved"]

\* A pass over a pool that holds a disabled entity with a body that is not
\* kinematic, or an entity without bodies, writes nothing for it; a pass
\* over a simulated entity moves its transform.
C39_Witness ==
    /\ \E e \in entities :
           /\ IsRegisteredForComponent(table, e, Physics)
           /\ ~PhysicsDataOf(Cur, e).enabled
           /\ PhysicsDataOf(Cur, e).body_count > 0
           /\ ~PhysicsDataOf(Cur, e).rigid_bodies[1].kinematic
           /\ RecordOf(pools, table, e, Transform).data.position = "moved"
    /\ Returned(UpdateAllEntities(Cur, Physics))
    /\ updates # <<>>

\* The entities of the entries of a render list, in order.
EntitiesOf(list) == [i \in 1..Len(list) |-> list[i].entity]

\* RemoveEntity(entity) on RenderMeshComponent or TransformComponent for
\* each (entity, component) of the sequence R that is registered when its
\* turn comes.
RECURSIVE RemoveEach(_, _)
RemoveEach(S, R) ==
    IF R = <<>> THEN S
    ELSE RemoveEach(IF IsRegisteredForComponent(S.table, R[1][1], R[1][2])
                    THEN RemoveEntity(S, R[1][1], R[1][2]) ELSE S,
                    Tail(R))

\* No RemoveEntity, or one, on any entity and either component.
RemovalsBetween ==
    {<<>>} \cup {<<<<e, c>>>> : e \in entities, c \in {RenderMesh, Transform}}

\* C40: after a RenderPrep that follows an earlier RenderPrep and the hiding
\* of any one entity, no entity is twice in the list of a pass and no
\* hidden entity is in a list; and after any RemoveEntity calls between
\* that RenderPrep and RenderPass, every entry of every list refers to an
\* entity registered with RenderMeshComponent and TransformComponent, so
\* that RenderPass returns.
C40_RenderListsAreCurrent ==
    RenderMesh \in Registered(components) =>
        \A earlier \in SUBSET entities, in_view \in SUBSET entities, h \in entities :
            \A S0 \in {SetHiddenRecursively(RenderPrep(Cur, earlier), h, TRUE)} :
                \A S1 \in {RenderPrep(S0, in_view)} :
                    Returned(S1) =>
                        /\ \A pass \in 0..(RenderPass_kCount - 1) :
                               /\ NoRepeat(EntitiesOf(S1.pass_render_list[pass]))
                               /\ \A i \in 1..Len(S1.pass_render_list[pass]) :
                                      ~RecordOf(S0.pools, S0.table,
                                                S1.pass_render_list[pass][i].entity,
                                                RenderMesh).data.currently_hidden
                        /\ \A R \in RemovalsBetween :
                               \A S2 \in {RemoveEach(S1, R)} :
                                   \A pass \in 0..(RenderPass_kCount - 1) :
                                       /\ \A i \in 1..Len(S2.pass_render_list[pass]) :
                                              LET entity == S2.pass_render_list[pass][i].entity
                                              IN /\ IsRegisteredForComponent(
                                                        S2.table, entity, RenderMesh)
                                                 /\ IsRegisteredForComponent(
                                                        S2.table, entity, Transform)
                                       /\ Returned(RenderPass(S2, pass))

=============================================================================
